---- MODULE Spec2Model ----
(***************************************************************************)
(* A model of rival_agent.providers.model_provider.ModelProvider: the      *)
(* pending-request registry, the mock event scheduler, the wait loops and  *)
(* the query / query_stream facade, as tasks of one cooperative (asyncio)  *)
(* event loop.  One action is one run of a coroutine from a suspension     *)
(* point (an awaited sleep, a yield) to the next one.                       *)
(*                                                                         *)
(* Time is counted in whole seconds.  A sleeping task carries the time at  *)
(* which it is due (wake); the clock moves only when no task is due.       *)
(* Python dicts are functions whose domain is the set of keys; the         *)
(* registry maps a transaction hash to a reference into heap, the store of *)
(* the entry dicts, so that two mappings can share one entry object.       *)
(***************************************************************************)
EXTENDS Integers, Sequences, FiniteSets, TLC

----------------------------------------------------------------------------
(* Bounds of the model *)

MaxTasks == 2        \* query / query_stream calls made in mock mode
MaxLiveTasks == 1    \* query / query_stream calls made in live mode
MaxCallerOps == 1    \* changes a caller makes to a returned mapping
MaxCancels == 2      \* cancel_request calls
MaxGets == 1         \* get_pending_requests calls
CallWindow == 4      \* callers act within this many seconds of StartTime
StartTime == 1800000001  \* time.time() when the provider is constructed

(* Program constants *)

polling_interval == 2
max_wait_time == 300
chunk_size == 20
nft_id == 3
mock_accepted_delay == 1
mock_result_delay == 3
max_retries == 3
retry_sleep == 1
receipt_timeout == 120
accept_timeout == 30
accept_poll == 1
accept_lookback == 5
priority_fee_gwei == 2
fallback_price_gwei == 50

Queries == {"ping", "pong"}

(* The texts the i-th call may carry: the code never looks into a text, so
   the first call's text is fixed and the later ones equal it or differ. *)
QueryTexts(i) == IF i = 1 THEN {"ping"} ELSE Queries

VARIABLES
    account,           \* TRUE iff a signing key is configured (live mode)
    substrate,         \* TRUE iff the Substrate interface was connected
    now,               \* int(time.time())
    heap,              \* the entry dicts ever created, by reference
    pending_requests,  \* self.pending_requests: tx hash -> reference
    task,              \* the query / query_stream calls
    mock_task,         \* the _schedule_mock_events background tasks
    history,           \* the registry operations, in order
    snapshot,          \* the mapping last returned by get_pending_requests
    assist,            \* the RivalAgent.assist call and its response handler
    game               \* the state file of SharedGameState and its callers

vars == <<account, substrate, now, heap, pending_requests, task, mock_task,
          history, snapshot, assist, game>>

----------------------------------------------------------------------------
(* Python values *)

EmptyDict == [k \in {} |-> 0]

DictGet(d, k, default) == IF k \in DOMAIN d THEN d[k] ELSE default

DictSet(d, k, v) == [x \in DOMAIN d \cup {k} |-> IF x = k THEN v ELSE d[x]]

DictDel(d, k) == [x \in DOMAIN d \ {k} |-> d[x]]

Min(a, b) == IF a < b THEN a ELSE b

Max(a, b) == IF a < b THEN b ELSE a

Tasks == 1..Max(MaxTasks, MaxLiveTasks)

StartsWith(s, p) == Len(s) >= Len(p) /\ SubSeq(s, 1, Len(p)) = p

Contains(s, q) ==
    \E k \in 1..(Len(s) - Len(q) + 1) : SubSeq(s, k, k + Len(q) - 1) = q

HexDigit(c) ==
    CASE c = "0" -> 0 [] c = "1" -> 1 [] c = "2" -> 2 [] c = "3" -> 3
      [] c = "4" -> 4 [] c = "5" -> 5 [] c = "6" -> 6 [] c = "7" -> 7
      [] c = "8" -> 8 [] c = "9" -> 9 [] c = "a" -> 10 [] c = "b" -> 11
      [] c = "c" -> 12 [] c = "d" -> 13 [] c = "e" -> 14 [] c = "f" -> 15

RECURSIVE HexToInt(_)
HexToInt(s) ==
    IF Len(s) = 0 THEN 0
    ELSE 16 * HexToInt(SubSeq(s, 1, Len(s) - 1))
         + HexDigit(SubSeq(s, Len(s), Len(s)))

Last8(s) == SubSeq(s, Max(1, Len(s) - 7), Len(s))

Zeros40 == "0000000000000000000000000000000000000000"

MockTxHash(t) == "0x" \o Zeros40 \o ToString(t)

MockRequestId(tx_hash) == HexToInt(Last8(tx_hash))

MockResponse(q) ==
    "Based on your query '" \o q
    \o "', here's my analysis and response from the Rival blockchain AI agent."

TimeoutText == ToString(max_wait_time) \o ".0"

(* An optional value: <<>> is None, <<v>> is v. *)
None == <<>>

Some(v) == <<v>>

Falsy(opt) == opt = None \/ opt[1] = 0


(* Python values that are bytes or str.  A bytes object that is valid UTF-8
   is held as the text it encodes (utf8), one that is not as its hex digits. *)
PyBytes(s) == [type |-> "bytes", valid |-> TRUE, utf8 |-> s]

PyBadBytes(hex) == [type |-> "bytes", valid |-> FALSE, hex |-> hex]

PyStr(s) == [type |-> "str", v |-> s]

(* A Python int that holds an amount of wei: hi * Base + lo, 0 <= lo < Base.
   Python ints are unbounded; the amounts here pass 2^31. *)
Base == 10^8

WeiNorm(hi, lo) == [hi |-> hi + lo \div Base, lo |-> lo % Base]

WeiOf(n) == WeiNorm(0, n)

WeiAdd(a, b) == WeiNorm(a.hi + b.hi, a.lo + b.lo)

(* int(a * x) for the float x = n/d (1.5 = 3/2, 1.2 = 6/5): a * n \div d. *)
WeiMulDiv(a, n, d) ==
    LET h == a.hi * n
    IN  WeiNorm(h \div d, ((h % d) * Base + a.lo * n) \div d)

WeiMul(a, k) == WeiMulDiv(a, k, 1)

WeiGeq(a, b) == a.hi > b.hi \/ (a.hi = b.hi /\ a.lo >= b.lo)

(* w3.to_wei(str(n), 'gwei') *)
to_wei_gwei(n) == WeiNorm(10 * n, 0)

(* str.encode('utf-8') *)
Encode(s) == PyBytes(s)

(* x.decode('utf-8') if isinstance(x, bytes) else str(x); the bytes the mock
   path passes are always the encoding of a str. *)
DecodeOutput(x) == IF x.type = "bytes" THEN x.utf8 ELSE x.v

----------------------------------------------------------------------------
(* The registry *)

(* An entry registered without a status of pending. *)
NewEntry_Unconfirmed(q, tx_hash, time) ==
    [query |-> q, status |-> "unconfirmed", submitted_at |-> time,
     tx_hash |-> tx_hash, nft_id |-> nft_id]

(* The entry dict of lines 231-237 and 266-271. *)
NewEntry(q, tx_hash, time) ==
    [query |-> q, status |-> "pending", submitted_at |-> time,
     tx_hash |-> tx_hash, nft_id |-> nft_id]

(* What the registry holds: every key with the content of its entry. *)
RegistryView == [k \in DOMAIN pending_requests |-> heap[pending_requests[k]]]

HistoryCount(op) == Cardinality({k \in DOMAIN history : history[k].op = op})

(* A registry operation of a caller as history records it: the operation,
   its argument and return value, the keys of the mapping returned, and the
   number of entries that had been submitted so far. *)
Event(op, id, ret, keys) ==
    [op |-> op, id |-> id, ret |-> ret, keys |-> keys, n |-> Len(heap)]

(* The registry and a task while a coroutine runs: S.t the task, S.heap and
   S.reg the entries and the registry, S.time the clock. *)
Bundle(t) ==
    [t |-> t, heap |-> heap, reg |-> pending_requests, time |-> now]

----------------------------------------------------------------------------
(* The facade: query and query_stream *)

IdleTask ==
    [pc |-> "idle", kind |-> "query", query |-> "", tx_hash |-> "",
     request_id |-> None, start_time |-> 0, wake |-> 0, attempt |-> 0,
     ret |-> "", chunks |-> <<>>, pos |-> 0, response |-> "", failed |-> "",
     result |-> "", gas_price |-> WeiOf(0), sends |-> <<>>, rpc |-> {},
     stages |-> <<>>, accepted_by |-> None, matched |-> None,
     observed |-> FALSE, own_event |-> None, last |-> "", nonce |-> 0,
     own_output |-> None, earlier_output |-> None]

(* A task: pc is where its coroutine is suspended ("done": it has returned),
   ret the value query returned, chunks what query_stream has yielded;
   result is the text the pipeline ended with and failed the stage that
   failed, whichever of the two operations was called; gas_price is the
   local of _submit_transaction and sends the calls of send_raw_transaction
   made so far, each with transaction['gasPrice'], transaction['nonce'] and
   how it ended; nonce is transaction['nonce'] as line 214 read it; rpc
   names the calls to the ledger (self.w3, self.contract, self.substrate)
   the call has made and stages the awaits of the facade it has started;
   accepted_by is the RequestSent entry the request id was read from and
   matched the event the result was decoded from.  For a call whose ledger
   is observed, own_event is the event of this call that the ledger holds
   and last the answer to the last pass of a wait loop; own_output is the
   result event of the call's request in the blocks that the passes of the
   result wait were given, and earlier_output the one in a block that the
   chain had when the result wait read its start block. *)

(* query: return response.  query_stream: the first chunk of the response is
   yielded and the generator sleeps; an empty response yields nothing. *)
FacadeReturn(t, response, time) ==
    IF t.kind = "query"
    THEN [t EXCEPT !.pc = "done", !.ret = response, !.result = response]
    ELSE IF 0 < Len(response)
         THEN [t EXCEPT !.pc = "streaming", !.response = response,
                        !.result = response,
                        !.chunks = <<SubSeq(response, 1,
                                            Min(chunk_size, Len(response)))>>,
                        !.pos = chunk_size, !.wake = time]
         ELSE [t EXCEPT !.pc = "done", !.response = response,
                        !.result = response]

(* query: return text.  query_stream: yield text, return. *)
FacadeError(t, text, stage) ==
    IF t.kind = "query"
    THEN [t EXCEPT !.pc = "done", !.ret = text, !.failed = stage,
                   !.result = text]
    ELSE [t EXCEPT !.pc = "done", !.chunks = Append(@, text),
                   !.failed = stage, !.result = text]

(* A facade without the except clause: the exception leaves the call. *)
FacadeExcept_Reraise(t, msg, stage) ==
    [t EXCEPT !.pc = "raised", !.failed = stage]

(* except Exception as e: the message becomes "Error: <message>". *)
FacadeExcept(t, msg, stage) == FacadeError(t, "Error: " \o msg, stage)

(* One resumption of query_stream's chunk loop after its sleep. *)
StreamNext(t, time) ==
    IF t.pos < Len(t.response)
    THEN [t EXCEPT !.chunks = Append(@, SubSeq(t.response, t.pos + 1,
                                   Min(t.pos + chunk_size, Len(t.response)))),
                   !.pos = t.pos + chunk_size, !.wake = time]
    ELSE [t EXCEPT !.pc = "done"]

----------------------------------------------------------------------------
(* The mock path *)

(* A pass that deletes the entry it finds without looking at its status. *)
wait_for_mock_result_Unread(S) ==
    LET t == S.t
        h == t.tx_hash
    IN  IF h \in DOMAIN S.reg
        THEN [S EXCEPT !.reg = DictDel(S.reg, h),
                       !.t = FacadeReturn(t,
                               DictGet(S.heap[S.reg[h]], "response", ""),
                               S.time)]
        ELSE [S EXCEPT !.t.pc = "mock_wait",
                       !.t.wake = S.time + polling_interval]

(* One pass of _wait_for_mock_result, from the loop test to the sleep, the
   return or the raise. *)
wait_for_mock_result(S) ==
    LET t == S.t
        h == t.tx_hash
        asleep == [S EXCEPT !.t.pc = "mock_wait",
                            !.t.wake = S.time + polling_interval]
    IN  IF S.time - t.start_time < max_wait_time
        THEN IF h \in DOMAIN S.reg
             THEN LET request_info == S.heap[S.reg[h]]
                  IN  IF request_info.status = "completed"
                      THEN [S EXCEPT
                              !.reg = DictDel(S.reg, h),
                              !.t = FacadeReturn(t,
                                     DictGet(request_info, "response", ""),
                                     S.time)]
                      ELSE IF request_info.status = "failed"
                      THEN [S EXCEPT
                              !.reg = DictDel(S.reg, h),
                              !.t = FacadeExcept(t, "Request failed: "
                                     \o DictGet(request_info, "error",
                                                "Unknown error"), "result")]
                      ELSE asleep
             ELSE asleep
        ELSE [S EXCEPT
                !.reg = IF h \in DOMAIN S.reg THEN DictDel(S.reg, h)
                        ELSE S.reg,
                !.t = FacadeExcept(t, "Request timed out after "
                                      \o TimeoutText \o " seconds", "result")]

(* _submit_mock_transaction: the registry part. *)
submit_mock_transaction(S) ==
    LET mock_tx_hash == MockTxHash(S.time)
    IN  [S EXCEPT
           !.heap = Append(S.heap, NewEntry(S.t.query, mock_tx_hash, S.time)),
           !.reg = DictSet(S.reg, mock_tx_hash, Len(S.heap) + 1),
           !.t.tx_hash = mock_tx_hash]

(* _emit_mock_event *)
emit_mock_event(event_type, tx_hash, data, H, P) ==
    IF event_type = "NodeOutputReceived" /\ tx_hash \in DOMAIN P
    THEN LET H1 == [H EXCEPT ![P[tx_hash]] =
                                 DictSet(@, "status", "completed")]
         IN  IF "output_data" \in DOMAIN data
             THEN [heap |-> [H1 EXCEPT ![P[tx_hash]] =
                       DictSet(@, "response",
                               DecodeOutput(data["output_data"]))],
                   raised |-> FALSE]
             ELSE [heap |-> H1, raised |-> TRUE]    \* KeyError
    ELSE [heap |-> H, raised |-> FALSE]

(* The payload _schedule_mock_events builds for the result notification. *)
MockResultData(request_id, q) ==
    [requestId |-> request_id, accountId |-> "FpXEL",
     outputData |-> Encode(MockResponse(q))]

(* A cancel_request that marks the entry and leaves it in the registry. *)
cancel_request_NoDelete(tx_hash, H, P) ==
    IF tx_hash \in DOMAIN P
    THEN [heap |-> [H EXCEPT ![P[tx_hash]] =
                                DictSet(@, "status", "cancelled")],
          reg |-> P, ret |-> TRUE]
    ELSE [heap |-> H, reg |-> P, ret |-> FALSE]

(* cancel_request: an entry that is present is marked cancelled and deleted,
   whatever its status; the result (the marked heap, the registry, the
   returned bool). *)
cancel_request(tx_hash, H, P) ==
    IF tx_hash \in DOMAIN P
    THEN [heap |-> [H EXCEPT ![P[tx_hash]] =
                                DictSet(@, "status", "cancelled")],
          reg |-> DictDel(P, tx_hash), ret |-> TRUE]
    ELSE [heap |-> H, reg |-> P, ret |-> FALSE]

(* get_pending_requests: dict.copy(), a new mapping to the same entries. *)
get_pending_requests(P) == [k \in DOMAIN P |-> P[k]]


----------------------------------------------------------------------------
(* The live path.  What the ledger answers is an input of each step. *)

MaxReceiptDelay == 1   \* seconds a successful receipt wait may block
MaxEventDelay == 2     \* a ledger event shows up this soon, or never

MaxLag == 5            \* blocks the head may be past the submission's block

RequestIds == {0, 7}

(* The request id and the transaction of somebody else's request. *)
ForeignRequestIds == {9}

ForeignTxHash == "0x0ther"

OutputDatas ==
    {PyBytes(""), PyBytes("The oracle answers: forty-two."),
     PyBadBytes("fffe")}

ForeignOutput == PyBytes("An answer to somebody else.")

(* Errors of eth.send_raw_transaction. *)
SendErrors ==
    {"replacement transaction underpriced",
     "gas price less than block base fee", "nonce too low"}

RpcErrorText == "connection refused"

LiveTxHash(i) == "0x5e9f" \o ToString(i)

(* A decoded RequestSent log entry (event.transactionHash.hex(),
   event.args.requestId). *)
RequestSent(tx_hash, request_id) ==
    [event |-> "RequestSent", transactionHash |-> tx_hash,
     requestId |-> request_id]

(* The RequestSent entries a filter may return: none, the one of the
   submission with either request id, somebody else's, or both. *)
RequestSentBatches(tx_hash) ==
    {<<>>}
    \cup {<<RequestSent(tx_hash, r)>> : r \in RequestIds}
    \cup {<<RequestSent(ForeignTxHash, f)>> : f \in ForeignRequestIds}
    \cup {<<RequestSent(ForeignTxHash, f), RequestSent(tx_hash, r)>> :
            f \in ForeignRequestIds, r \in RequestIds \ {0}}

(* What the ledger answers to one pass of _wait_for_request_accepted:
   eth.block_number raises ("rpc_error"), or it answers and the filter
   raises ("scan_error") or returns its entries ("entries").  events are the
   RequestSent entries of the blocks not scanned before, from the block of
   the submission on; at the first pass they are in that block, and the head
   is lag blocks past it (the lag counts only when they are read, and when
   there is one of the submission to read). *)
AcceptAnswers(tx_hash) ==
    {[kind |-> "rpc_error", events |-> <<>>, lag |-> 0]}
    \cup [kind : {"scan_error", "entries"},
          events : RequestSentBatches(tx_hash), lag : {0}]
    \cup [kind : {"entries"},
          events : {<<RequestSent(tx_hash, r)>> : r \in RequestIds},
          lag : 1..MaxLag]

(* The answers to a pass after the first: the head of the chain was read
   by the pass before. *)
LaterAcceptAnswers(tx_hash) == {a \in AcceptAnswers(tx_hash) : a.lag = 0}

(* A Substrate event record: event.value['event_id'] and
   event.value['attributes'] (None: the record has no attributes), the
   attributes with request_id and output_data (None: absent). *)
NodeEvent(event_id, request_id, output_data) ==
    [event_id |-> event_id,
     attributes |-> Some([request_id |-> request_id,
                          output_data |-> output_data])]

BareNodeEvent(event_id) == [event_id |-> event_id, attributes |-> None]

(* A block: get_block_hash / get_events raise (error), or give events. *)
Block(events) == [error |-> FALSE, events |-> events]

ErrorBlock == [error |-> TRUE, events |-> <<>>]

(* The new blocks one pass of _listen_for_node_output may find. *)
NodeBlocks ==
    LET name == "NodeOutputReceived"
        text == Some(PyBytes("The oracle answers: forty-two."))
        r == CHOOSE x \in RequestIds : x # 0
    IN  {<<>>}
        \cup {<<Block(<<NodeEvent(name, r, Some(o))>>)>> : o \in OutputDatas}
        \cup {<<Block(<<NodeEvent(name, f, Some(ForeignOutput))>>)>> :
                f \in ForeignRequestIds}
        \cup {<<Block(<<NodeEvent(name, f, Some(ForeignOutput)),
                        NodeEvent(name, r, text)>>)>> :
                f \in ForeignRequestIds}
        \cup {<<Block(<<NodeEvent("RequestAccepted", r, text),
                        NodeEvent(name, r, None)>>)>>,
              <<ErrorBlock, Block(<<NodeEvent(name, r, text)>>)>>,
              <<Block(<<BareNodeEvent(name), NodeEvent(name, r, text)>>)>>}

(* What the ledger answers to one pass of _listen_for_node_output: the
   chain head cannot be read before the loop ("start_error") or in it
   ("head_error"), or it can and these are the new blocks. *)
NodeAnswers ==
    {[kind |-> "start_error", blocks |-> <<>>],
     [kind |-> "head_error", blocks |-> <<>>]}
    \cup {[kind |-> "blocks", blocks |-> b] : b \in NodeBlocks}

(* What the ledger answers to _get_dynamic_gas_price: eth.get_block raises
   ("error"), gives a block without baseFeePerGas ("legacy") or one with it
   ("eip1559"); eth.gas_price raises (None) or gives a price. *)
FeeOutcomes ==
    [block : {"error", "legacy"}, base_fee : {WeiOf(0)},
     gas_price : {None, Some(WeiOf(1)), Some(WeiOf(10))}]
    \cup [block : {"eip1559"}, base_fee : {WeiOf(0), WeiOf(7)},
          gas_price : {None, Some(WeiOf(1)), Some(WeiOf(10))}]

(* Lines 514-524: the base fee of the latest block can be used. *)
HasBaseFee(fee) == fee.block = "eip1559" /\ fee.base_fee # WeiOf(0)

(* An estimator that knows only the base fee: without one it falls back
   to the fixed price. *)
get_dynamic_gas_price_BaseFeeOnly(fee) ==
    IF fee.block = "eip1559" /\ fee.base_fee # WeiOf(0)
    THEN WeiAdd(fee.base_fee, to_wei_gwei(priority_fee_gwei))
    ELSE to_wei_gwei(fallback_price_gwei)

(* _get_dynamic_gas_price *)
get_dynamic_gas_price(fee) ==
    IF HasBaseFee(fee)
    THEN WeiAdd(fee.base_fee, to_wei_gwei(priority_fee_gwei))
    ELSE IF fee.gas_price # None
    THEN WeiMulDiv(fee.gas_price[1], 6, 5)
    ELSE to_wei_gwei(fallback_price_gwei)

(* Lines 575-583: the first entry whose transaction is tx_hash. *)
RECURSIVE first_request_sent(_, _)
first_request_sent(events, tx_hash) ==
    IF events = <<>> THEN None
    ELSE IF Head(events).transactionHash = tx_hash THEN Some(Head(events))
    ELSE first_request_sent(Tail(events), tx_hash)

(* A scan that takes the first entry, whoever sent it. *)
request_accepted_scan_AnyTx(answer, tx_hash, first) ==
    IF answer.kind # "entries" THEN [kind |-> answer.kind, event |-> None]
    ELSE IF answer.events = <<>> THEN [kind |-> "none", event |-> None]
    ELSE [kind |-> "found", event |-> Some(Head(answer.events))]

(* A scan without the try of lines 567-586: an error of the filter leaves
   the loop as an error of eth.block_number does. *)
request_accepted_scan_Unguarded(answer, tx_hash, first) ==
    IF answer.kind # "entries" THEN [kind |-> "rpc_error", event |-> None]
    ELSE LET e == first_request_sent(answer.events, tx_hash)
         IN  IF e = None THEN [kind |-> "none", event |-> None]
             ELSE [kind |-> "found", event |-> e]

(* Lines 560-586, one scan of _wait_for_request_accepted.  The first scan
   covers the accept_lookback blocks up to the head (line 555), a later one
   the blocks since the scan before it. *)
request_accepted_scan(answer, tx_hash, first) ==
    IF answer.kind # "entries" THEN [kind |-> answer.kind, event |-> None]
    ELSE LET inside == ~first \/ answer.lag < accept_lookback
             e == IF inside THEN first_request_sent(answer.events, tx_hash)
                  ELSE None
         IN  IF e = None THEN [kind |-> "none", event |-> None]
             ELSE [kind |-> "found", event |-> e]

(* The answers to the first pass of the result wait that matter after the
   answer a to a pass of the acceptance wait: the result wait starts only
   when the scan has found an entry. *)
NodeAnswersAfter(a, tx_hash, first) ==
    IF request_accepted_scan(a, tx_hash, first).kind = "found"
    THEN NodeAnswers
    ELSE {[kind |-> "blocks", blocks |-> <<>>]}

(* The answers of the ledger to one run of a coroutine, each answer that
   the run does not come to read being the one of DefaultEnv: from the
   receipt wait on, from a send on, and from the start of a call. *)
DefaultEnv(i) ==
    [fee |-> [block |-> "error", base_fee |-> WeiOf(0), gas_price |-> None],
     build |-> "ok", send |-> "ok", receipt |-> "success", delay |-> 0,
     accept |-> [kind |-> "entries", events |-> <<>>, lag |-> 0],
     node |-> [kind |-> "blocks", blocks |-> <<>>],
     tx_hash |-> LiveTxHash(i), nonce |-> 0, before |-> <<>>]

ReceiptEnvs(i) ==
    {[DefaultEnv(i) EXCEPT !.receipt = "timeout"]}
    \cup {[DefaultEnv(i) EXCEPT !.receipt = "reverted", !.delay = d] :
            d \in 0..MaxReceiptDelay}
    \cup UNION {{[DefaultEnv(i) EXCEPT !.delay = d, !.accept = a,
                                       !.node = n] :
                   n \in NodeAnswersAfter(a, LiveTxHash(i), TRUE)} :
                d \in 0..MaxReceiptDelay,
                a \in AcceptAnswers(LiveTxHash(i))}

SendEnvs(i) ==
    {[DefaultEnv(i) EXCEPT !.send = e] : e \in SendErrors}
    \cup ReceiptEnvs(i)

Envs(i) ==
    UNION {{[env EXCEPT !.fee = f] : env \in SendEnvs(i)}
           \cup {[DefaultEnv(i) EXCEPT !.fee = f, !.build = "error"]} :
           f \in FeeOutcomes}

(* Lines 640-673: the event is the result of request_id.  raised: reading
   it raises (event_data is None). *)
node_event_test(event, request_id) ==
    IF event.event_id = "NodeOutputReceived"
    THEN IF event.attributes = None
         THEN [raised |-> TRUE, match |-> FALSE]
         ELSE [raised |-> FALSE,
               match |-> /\ event.attributes[1].request_id = request_id
                         /\ event.attributes[1].output_data # None]
    ELSE [raised |-> FALSE, match |-> FALSE]

(* A test that takes the output of any request. *)
node_events_scan_AnyRequest(events, request_id) ==
    IF events = <<>> THEN None
    ELSE IF Head(events).attributes # None
            /\ Head(events).attributes[1].output_data # None
         THEN Some(Head(events))
         ELSE None

(* Lines 636-687: the events of one block, in order; an error on one event
   ends the block (lines 689-691). *)
RECURSIVE node_events_scan(_, _)
node_events_scan(events, request_id) ==
    IF events = <<>> THEN None
    ELSE LET c == node_event_test(Head(events), request_id)
         IN  IF c.raised THEN None
             ELSE IF c.match THEN Some(Head(events))
             ELSE node_events_scan(Tail(events), request_id)

(* Lines 625-691: the new blocks, in order; a block that cannot be read is
   skipped. *)
RECURSIVE node_blocks_scan(_, _)
node_blocks_scan(blocks, request_id) ==
    IF blocks = <<>> THEN None
    ELSE LET e == IF Head(blocks).error THEN None
                  ELSE node_events_scan(Head(blocks).events, request_id)
         IN  IF e # None THEN e
             ELSE node_blocks_scan(Tail(blocks), request_id)

(* Lines 618-696, one scan of _listen_for_node_output. *)
node_output_scan(answer, request_id) ==
    IF answer.kind # "blocks" THEN [kind |-> answer.kind, event |-> None]
    ELSE LET e == node_blocks_scan(answer.blocks, request_id)
         IN  IF e = None THEN [kind |-> "none", event |-> None]
             ELSE [kind |-> "found", event |-> e]

(* _listen_for_node_output, lines 676-687: the text of a matching event. *)
DecodeNodeOutput(output_data) ==
    IF output_data.type = "bytes"
    THEN IF output_data.valid THEN output_data.utf8 ELSE output_data.hex
    ELSE output_data.v

(* The events of blocks, in the order of the chain. *)
RECURSIVE BlockEvents(_)
BlockEvents(blocks) ==
    IF blocks = <<>> THEN <<>>
    ELSE Head(blocks).events \o BlockEvents(Tail(blocks))

(* The first event that is the result of request_id (lines 656 and 673)
   among those the blocks hold, whether the scan gets to it or not. *)
first_node_output(blocks, request_id) ==
    LET ev == BlockEvents(blocks)
        ks == {k \in DOMAIN ev : node_event_test(ev[k], request_id).match}
    IN  IF ks = {} THEN None
        ELSE Some(ev[CHOOSE k \in ks : \A j \in ks : k <= j])

(* The answers to a pass of a wait that has slept.  A call whose ledger is
   not observed keeps nothing of an answer but what the scan makes of it:
   for such a call one answer stands for all those the scan treats alike
   (no entry, the entry of the submission, an error of eth.block_number;
   no event, the event of the request with each output). *)
PollAcceptAnswers(t) ==
    IF t.observed THEN LaterAcceptAnswers(t.tx_hash)
    ELSE {a \in LaterAcceptAnswers(t.tx_hash) :
            /\ a.kind # "scan_error"
            /\ Len(a.events) <= 1
            /\ \A k \in DOMAIN a.events :
                 a.events[k].transactionHash = t.tx_hash}

PollNodeAnswers(t) ==
    IF t.observed THEN NodeAnswers \ {[kind |-> "start_error",
                                       blocks |-> <<>>]}
    ELSE {n \in NodeAnswers :
            /\ n.kind = "blocks"
            /\ Len(n.blocks) <= 1
            /\ \A k \in DOMAIN n.blocks :
                 /\ ~n.blocks[k].error
                 /\ Len(n.blocks[k].events) = 1
                 /\ node_events_scan(n.blocks[k].events,
                                     t.request_id[1]) # None}

(* Lines 674-687: return the text of the matching event.  matched keeps
   the event. *)
NodeOutputReturn(S, event) ==
    [S EXCEPT !.t = FacadeReturn(
                      [S.t EXCEPT !.matched = event],
                      DecodeNodeOutput(event[1].attributes[1].output_data[1]),
                      S.time)]

(* A pass of a loop that sleeps for max_wait_time between two reads of
   the events, instead of polling_interval. *)
node_output_pass_LongSleep(S0, answer) ==
    LET S == [S0 EXCEPT !.t.rpc = @ \cup {"substrate.get_chain_head",
                                          "substrate.get_events"}]
        outcome == node_output_scan(answer, S0.t.request_id[1])
    IN
    IF S.time - S.t.start_time < max_wait_time
    THEN IF outcome.kind = "found"
              /\ S.time - S.t.start_time <= MaxEventDelay
         THEN NodeOutputReturn(S, outcome.event)
         ELSE [S EXCEPT !.t.pc = "node_wait",
                        !.t.wake = S.time + max_wait_time]
    ELSE [S EXCEPT !.t = FacadeExcept(S.t,
              "No NodeOutputReceived event found for request "
              \o ToString(S.t.request_id[1]) \o " within " \o TimeoutText
              \o " seconds", "result")]

(* The ledger of an observed call: what it answered to the pass, and the
   result event of the call's request once its blocks hold one. *)
ObserveNode(t, answer, time) ==
    IF ~t.observed THEN t
    ELSE [t EXCEPT !.last =
            IF \E k \in DOMAIN answer.blocks :
                 \/ answer.blocks[k].error
                 \/ \E j \in DOMAIN answer.blocks[k].events :
                      answer.blocks[k].events[j].attributes = None
            THEN "block_error" ELSE answer.kind,
                   !.own_output =
                       IF @ = None /\ time - t.start_time <= MaxEventDelay
                       THEN first_node_output(answer.blocks, t.request_id[1])
                       ELSE @]

(* One pass of the loop of _listen_for_node_output. *)
node_output_pass(S0, answer) ==
    LET S == IF S0.time - S0.t.start_time < max_wait_time
             THEN [S0 EXCEPT !.t = ObserveNode(
                     [S0.t EXCEPT !.rpc = @ \cup {"substrate.get_chain_head",
                                                  "substrate.get_events"}],
                     answer, S0.time)]
             ELSE S0
        outcome == node_output_scan(answer, S0.t.request_id[1])
    IN
    IF S.time - S.t.start_time < max_wait_time
    THEN IF outcome.kind = "found"
              /\ S.time - S.t.start_time <= MaxEventDelay
         THEN NodeOutputReturn(S, outcome.event)
         ELSE [S EXCEPT !.t.pc = "node_wait",
                        !.t.wake = S.time + polling_interval]
    ELSE [S EXCEPT !.t = FacadeExcept(S.t,
              "No NodeOutputReceived event found for request "
              \o ToString(S.t.request_id[1]) \o " within " \o TimeoutText
              \o " seconds", "result")]

(* The ledger of an observed call: the result event of the call's request
   in the blocks up to the one that line 614 reads as the head. *)
ObserveEarlier(t, before) ==
    IF ~t.observed THEN t
    ELSE [t EXCEPT !.earlier_output =
                       first_node_output(before, t.request_id[1])]

(* _listen_for_node_output up to its first sleep. *)
listen_for_node_output(S, answer) ==
    IF ~substrate
    THEN [S EXCEPT !.t = FacadeExcept(S.t,
                             "Substrate interface not connected", "result")]
    ELSE IF answer.kind = "start_error"
    THEN [S EXCEPT !.t = FacadeExcept(
                     [S.t EXCEPT !.rpc = @ \cup {"substrate.get_chain_head"}],
                     RpcErrorText, "result")]
    ELSE node_output_pass(
           [S EXCEPT !.t.start_time = S.time,
                     !.t.rpc = @ \cup {"substrate.get_chain_head"}], answer)

(* A facade that starts the result wait whatever the acceptance wait
   returned. *)
FacadeAfterAccepted_NoTest(S, request_id, env) ==
    LET S1 == [S EXCEPT !.t.request_id = request_id,
                         !.t.stages = Append(@, "result")]
    IN  IF account
        THEN listen_for_node_output(S1, env.node)
        ELSE wait_for_mock_result([S1 EXCEPT !.t.start_time = S.time])

(* query / query_stream from the value of _wait_for_request_accepted on. *)
FacadeAfterAccepted(S, request_id, env) ==
    IF Falsy(request_id)
    THEN [S EXCEPT !.t = FacadeError(S.t, "Error: Request not accepted",
                                     "accept")]
    ELSE LET S1 == [S EXCEPT !.t.request_id = request_id,
                              !.t.stages = Append(@, "result")]
         IN  IF account
             THEN listen_for_node_output(
                    [S1 EXCEPT !.t = ObserveEarlier(S1.t, env.before)],
                    env.node)
             ELSE wait_for_mock_result([S1 EXCEPT !.t.start_time = S.time])

(* Lines 580-583: return the request id of the matching entry.
   accepted_by keeps the entry. *)
RequestAcceptedReturn(S, event, env) ==
    FacadeAfterAccepted([S EXCEPT !.t.accepted_by = event],
                        Some(event[1].requestId), env)

(* A pass of a loop that has no deadline. *)
request_accepted_pass_NoDeadline(S0, env) ==
    LET S == [S0 EXCEPT !.t.rpc = @ \cup {"eth.block_number",
                                          "RequestSent.create_filter"}]
        outcome == request_accepted_scan(env.accept, S0.t.tx_hash,
                                         S0.time = S0.t.start_time)
    IN  IF outcome.kind = "found"
             /\ S.time - S.t.start_time <= MaxEventDelay
        THEN RequestAcceptedReturn(S, outcome.event, env)
        ELSE IF outcome.kind = "rpc_error"
        THEN FacadeAfterAccepted(S, None, env)
        ELSE [S EXCEPT !.t.pc = "accept_wait",
                       !.t.wake = S.time + accept_poll]

(* The ledger of an observed call: what it answered to the pass, and the
   RequestSent entry of the call's transaction once it holds one. *)
ObserveAccept(t, answer, time) ==
    IF ~t.observed THEN t
    ELSE [t EXCEPT !.last = answer.kind,
                   !.own_event =
                       IF @ = None /\ time - t.start_time <= MaxEventDelay
                       THEN first_request_sent(answer.events, t.tx_hash)
                       ELSE @]

(* One pass of the loop of _wait_for_request_accepted (live). *)
request_accepted_pass(S0, env) ==
    LET S == IF S0.time - S0.t.start_time < accept_timeout
             THEN [S0 EXCEPT !.t = ObserveAccept(
                     [S0.t EXCEPT !.rpc = @ \cup {"eth.block_number",
                                            "RequestSent.create_filter"}],
                     env.accept, S0.time)]
             ELSE S0
        outcome == request_accepted_scan(env.accept, S0.t.tx_hash,
                                         S0.time = S0.t.start_time)
    IN
    IF S.time - S.t.start_time < accept_timeout
    THEN IF outcome.kind = "found"
              /\ S.time - S.t.start_time <= MaxEventDelay
         THEN RequestAcceptedReturn(S, outcome.event, env)
         ELSE IF outcome.kind = "rpc_error"
         THEN FacadeAfterAccepted(S, None, env)
         ELSE [S EXCEPT !.t.pc = "accept_wait",
                        !.t.wake = S.time + accept_poll]
    ELSE FacadeAfterAccepted(S, None, env)

(* A _wait_for_request_accepted without its mock branch. *)
wait_for_request_accepted_Live(S, env) ==
    request_accepted_pass(
        [S EXCEPT !.t.start_time = S.time,
                  !.t.rpc = @ \cup {"eth.block_number"}], env)

(* _wait_for_request_accepted up to its first sleep. *)
wait_for_request_accepted(S, env) ==
    IF ~account
    THEN FacadeAfterAccepted(S, Some(MockRequestId(S.t.tx_hash)), env)
    ELSE request_accepted_pass(
           [S EXCEPT !.t.start_time = S.time,
                     !.t.rpc = @ \cup {"eth.block_number"}], env)

(* _wait_for_transaction_receipt: the time it returns at, whether it
   returns a receipt, and the ledger calls it made. *)
wait_for_transaction_receipt(S, env) ==
    IF ~account
    THEN [time |-> S.time, receipt |-> TRUE, rpc |-> {}]
    ELSE IF env.receipt = "timeout"
    THEN [time |-> S.time + receipt_timeout, receipt |-> FALSE,
          rpc |-> {"eth.wait_for_transaction_receipt"}]
    ELSE [time |-> S.time + env.delay, receipt |-> env.receipt = "success",
          rpc |-> {"eth.wait_for_transaction_receipt"}]

(* A facade that goes on to the acceptance wait whatever the receipt wait
   returned. *)
FacadeAfterSubmit_NoTest(S, env) ==
    LET r == wait_for_transaction_receipt(S, env)
        S1 == [S EXCEPT !.time = r.time, !.t.rpc = @ \cup r.rpc,
                        !.t.stages = Append(@, "receipt")]
    IN  wait_for_request_accepted(
          [S1 EXCEPT !.t.stages = Append(@, "accept"),
                     !.t.failed = IF r.receipt THEN @ ELSE "receipt"], env)

(* query / query_stream from the return of _submit_transaction on. *)
FacadeAfterSubmit(S, env) ==
    LET r == wait_for_transaction_receipt(S, env)
        S1 == [S EXCEPT !.time = r.time, !.t.rpc = @ \cup r.rpc,
                        !.t.stages = Append(@, "receipt")]
    IN  IF ~r.receipt
        THEN [S1 EXCEPT !.t = FacadeError(S1.t, "Error: Transaction failed",
                                          "receipt")]
        ELSE wait_for_request_accepted(
               [S1 EXCEPT !.t.stages = Append(@, "accept")], env)

(* A retry test that takes every error for a fee error. *)
IsUnderpriced_Any(error_str) == Len(error_str) >= 0

(* line 243 *)
IsUnderpriced(error_str) ==
    \/ Contains(error_str, "gas price less than block base fee")
    \/ Contains(error_str, "underpriced")

(* One pass of the retry loop of _submit_transaction (live). *)
send_attempt(S0, env) ==
    LET S == [S0 EXCEPT
                !.t.sends = Append(@, [fee |-> S0.t.gas_price,
                                       nonce |-> S0.t.nonce,
                                       outcome |-> env.send]),
                !.t.rpc = @ \cup {"eth.send_raw_transaction"}]
    IN
    IF env.send = "ok"
    THEN FacadeAfterSubmit(
           [S EXCEPT
              !.heap = Append(S.heap,
                              NewEntry(S.t.query, env.tx_hash, S.time)),
              !.reg = DictSet(S.reg, env.tx_hash, Len(S.heap) + 1),
              !.t.tx_hash = env.tx_hash], env)
    ELSE IF IsUnderpriced(env.send)
    THEN IF S.t.attempt < max_retries - 1
         THEN [S EXCEPT !.t.pc = "submit_retry",
                        !.t.attempt = S.t.attempt + 1,
                        !.t.gas_price = WeiMulDiv(S.t.gas_price, 3, 2),
                        !.t.wake = S.time + retry_sleep]
         ELSE [S EXCEPT !.t = FacadeExcept(S.t,
                  "Transaction submission failed: Transaction failed after "
                  \o ToString(max_retries)
                  \o " retries due to gas price: " \o env.send, "submit")]
    ELSE [S EXCEPT !.t = FacadeExcept(S.t,
              "Transaction submission failed: " \o env.send, "submit")]

(* The ledger calls of lines 176-215 and of _get_dynamic_gas_price. *)
PrepareCalls(fee) ==
    {"contract.agents", "eth.get_block", "callAgent.estimate_gas",
     "eth.get_transaction_count"}
    \cup (IF HasBaseFee(fee) THEN {} ELSE {"eth.gas_price"})

(* _submit_transaction and what follows it, up to the first suspension. *)
submit_transaction(S0, env) ==
    LET S == [S0 EXCEPT !.t.stages = Append(@, "submit")]
    IN
    IF ~account
    THEN FacadeAfterSubmit(submit_mock_transaction(S), env)
    ELSE LET S1 == [S EXCEPT
                      !.t.attempt = 0,
                      !.t.gas_price = get_dynamic_gas_price(env.fee),
                      !.t.nonce = env.nonce,
                      !.t.rpc = @ \cup PrepareCalls(env.fee)]
         IN  IF env.build = "error"
             THEN [S1 EXCEPT !.t = FacadeExcept(S1.t,
                      "Transaction submission failed: " \o RpcErrorText,
                      "submit")]
             ELSE send_attempt(S1, env)


----------------------------------------------------------------------------
(* The state machine *)

(* A _schedule_mock_events task: created, accepted_at and result_at are
   the times it was started and it called _emit_mock_event (0: not yet). *)
NoMockTask ==
    [pc |-> "none", tx_hash |-> "", request_id |-> 0, wake |-> 0,
     created |-> 0, accepted_at |-> 0, result_at |-> 0]

(* No agent has been built around the provider. *)
NoAssist == [pc |-> "none"]

(* No SharedGameState has been built. *)
NoGame == [pc |-> "none"]

(* The provider after its constructor. *)
InitProvider ==
    /\ account \in BOOLEAN
    /\ substrate \in (IF account THEN BOOLEAN ELSE {TRUE})
    /\ now = StartTime
    /\ heap = <<>>
    /\ pending_requests = EmptyDict
    /\ task = [i \in Tasks |-> IdleTask]
    /\ mock_task = [i \in Tasks |-> NoMockTask]
    /\ history = <<>>
    /\ snapshot = EmptyDict

Init ==
    /\ InitProvider
    /\ assist = NoAssist
    /\ game = NoGame

CallersActive == now - StartTime <= CallWindow

(* The coroutine of task i has run to its next suspension or to its end. *)
Resume(i, S) ==
    /\ task' = [task EXCEPT ![i] = S.t]
    /\ heap' = S.heap
    /\ pending_requests' = S.reg
    /\ now' = S.time

Sleeping(i, pc) == task[i].pc = pc /\ task[i].wake <= now

(* A scheduler that skips the "accepted" notification. *)
schedule_mock_events_ResultOnly(tx_hash, time) ==
    [pc |-> "sleep_result", tx_hash |-> tx_hash,
     request_id |-> MockRequestId(tx_hash),
     wake |-> time + mock_accepted_delay,
     created |-> time, accepted_at |-> 0, result_at |-> 0]

(* _schedule_mock_events up to its first sleep, as the task that
   _submit_mock_transaction creates. *)
schedule_mock_events(tx_hash, time) ==
    [pc |-> "sleep_accepted", tx_hash |-> tx_hash,
     request_id |-> MockRequestId(tx_hash),
     wake |-> time + mock_accepted_delay,
     created |-> time, accepted_at |-> 0, result_at |-> 0]

(* A caller calls query(q) or query_stream(q) and the coroutine runs to its
   first suspension, the ledger answering one of envs. *)
FacadeCall(i, q, kind, envs, observed) ==
    /\ task[i].pc = "idle"
    /\ \A j \in Tasks : j < i => task[j].pc # "idle"
    /\ i <= (IF account THEN MaxLiveTasks ELSE MaxTasks)
    /\ q \in QueryTexts(i)
    /\ CallersActive
    /\ \E env \in envs :
         LET S == submit_transaction(
                    Bundle([IdleTask EXCEPT !.kind = kind, !.query = q,
                                            !.observed = observed]), env)
         IN  /\ Resume(i, S)
             /\ mock_task' =
                  IF account THEN mock_task
                  ELSE [mock_task EXCEPT
                          ![i] = schedule_mock_events(S.t.tx_hash, now)]
    /\ UNCHANGED <<account, substrate, history, snapshot, game>>

QueryCall(i, q, kind) ==
    /\ FacadeCall(i, q, kind,
                  IF account THEN Envs(i) ELSE {DefaultEnv(i)}, FALSE)
    /\ UNCHANGED assist

(* _submit_transaction wakes from the sleep between two send attempts. *)
SendRetry(i, envs) ==
    /\ Sleeping(i, "submit_retry")
    /\ \E env \in envs :
         Resume(i, send_attempt(Bundle(task[i]), env))
    /\ UNCHANGED <<account, substrate, mock_task, history, snapshot,
                   assist, game>>

SubmitRetry(i) == SendRetry(i, SendEnvs(i))

(* _wait_for_request_accepted wakes from its sleep.  A transaction has one
   RequestSent entry, in one block: once the ledger is known to hold it, no
   later range of blocks does. *)
AcceptPoll(i) ==
    /\ Sleeping(i, "accept_wait")
    /\ \E a \in PollAcceptAnswers(task[i]) :
       \E n \in NodeAnswersAfter(a, LiveTxHash(i), FALSE) :
         /\ \/ task[i].own_event = None
            \/ first_request_sent(a.events, LiveTxHash(i)) = None
         /\ Resume(i, request_accepted_pass(Bundle(task[i]),
                     [DefaultEnv(i) EXCEPT !.accept = a, !.node = n]))
    /\ UNCHANGED <<account, substrate, mock_task, history, snapshot,
                   assist, game>>

(* _listen_for_node_output wakes from its sleep. *)
NodeOutputPoll(i) ==
    /\ Sleeping(i, "node_wait")
    /\ \E n \in PollNodeAnswers(task[i]) :
         /\ \/ task[i].own_output = None /\ task[i].earlier_output = None
            \/ first_node_output(n.blocks, task[i].request_id[1]) = None
         /\ Resume(i, node_output_pass(Bundle(task[i]), n))
    /\ UNCHANGED <<account, substrate, mock_task, history, snapshot,
                   assist, game>>

(* _wait_for_mock_result wakes from its sleep. *)
MockWaitPoll(i) ==
    /\ Sleeping(i, "mock_wait")
    /\ Resume(i, wait_for_mock_result(Bundle(task[i])))
    /\ UNCHANGED <<account, substrate, mock_task, history, snapshot,
                   assist, game>>

(* query_stream wakes from the sleep after a chunk. *)
StreamStep(i) ==
    /\ Sleeping(i, "streaming")
    /\ task' = [task EXCEPT ![i] = StreamNext(task[i], now)]
    /\ UNCHANGED <<account, substrate, now, heap, pending_requests,
                   mock_task, history, snapshot, assist, game>>

(* _schedule_mock_events wakes from its first sleep: the "accepted"
   notification, then the second sleep. *)
MockAccepted(i) ==
    /\ mock_task[i].pc = "sleep_accepted"
    /\ mock_task[i].wake <= now
    /\ LET m == mock_task[i]
           e == emit_mock_event("RequestAccepted", m.tx_hash,
                    [requestId |-> m.request_id, address |-> "0x0",
                     nftId |-> nft_id], heap, pending_requests)
       IN  /\ heap' = e.heap
           /\ mock_task' = [mock_task EXCEPT
                  ![i].pc = IF e.raised THEN "raised" ELSE "sleep_result",
                  ![i].accepted_at = now,
                  ![i].wake = now + mock_result_delay]
    /\ UNCHANGED <<account, substrate, now, pending_requests, task,
                   history, snapshot, assist, game>>

(* _schedule_mock_events wakes from its second sleep: the "result"
   notification.  Reading the query of an entry that is gone raises. *)
MockResult(i) ==
    /\ mock_task[i].pc = "sleep_result"
    /\ mock_task[i].wake <= now
    /\ LET m == mock_task[i]
       IN  IF m.tx_hash \notin DOMAIN pending_requests
           THEN /\ mock_task' = [mock_task EXCEPT ![i].pc = "raised"]
                /\ heap' = heap
           ELSE LET q == heap[pending_requests[m.tx_hash]].query
                    e == emit_mock_event("NodeOutputReceived", m.tx_hash,
                             MockResultData(m.request_id, q),
                             heap, pending_requests)
                IN  /\ heap' = e.heap
                    /\ mock_task' = [mock_task EXCEPT
                         ![i].pc = IF e.raised THEN "raised" ELSE "done",
                         ![i].result_at = now]
    /\ UNCHANGED <<account, substrate, now, pending_requests, task,
                   history, snapshot, assist, game>>

(* The identifiers a caller may pass to cancel_request: those it was given,
   and one that was never registered. *)
UnknownTxHash == "0x456"

KnownTxHashes == {heap[r].tx_hash : r \in DOMAIN heap}

(* A caller calls cancel_request(tx_hash). *)
Cancel ==
    /\ CallersActive
    /\ \E tx_hash \in KnownTxHashes \cup {UnknownTxHash} :
         LET c == cancel_request(tx_hash, heap, pending_requests)
         IN  /\ heap' = c.heap
             /\ pending_requests' = c.reg
    /\ UNCHANGED <<account, substrate, now, task, mock_task, history,
                   snapshot, assist, game>>

(* The times at which the sleeping tasks are due. *)
Timers ==
    {task[i].wake : i \in {j \in Tasks : task[j].pc \in
        {"submit_retry", "accept_wait", "node_wait", "mock_wait",
         "streaming", "agent_wait"}}}
    \cup {mock_task[i].wake : i \in {j \in Tasks : mock_task[j].pc \in
        {"sleep_accepted", "sleep_result"}}}

(* No task is due: the clock moves to the next time one is. *)
Tick ==
    /\ Timers # {}
    /\ \A w \in Timers : now < w
    /\ now' = CHOOSE w \in Timers : \A v \in Timers : w <= v
    /\ UNCHANGED <<account, substrate, heap, pending_requests, task,
                   mock_task, history, snapshot, assist, game>>

Next ==
    \/ \E i \in Tasks, q \in Queries, kind \in {"query", "query_stream"} :
         QueryCall(i, q, kind)
    \/ \E i \in Tasks : SubmitRetry(i)
    \/ \E i \in Tasks : AcceptPoll(i)
    \/ \E i \in Tasks : NodeOutputPoll(i)
    \/ \E i \in Tasks : MockWaitPoll(i)
    \/ \E i \in Tasks : StreamStep(i)
    \/ \E i \in Tasks : MockAccepted(i)
    \/ \E i \in Tasks : MockResult(i)
    \/ Cancel
    \/ Tick

Spec == Init /\ [][Next]_vars

(* The event loop resumes a task that is due, and time passes. *)
Run ==
    \/ \E i \in Tasks : SubmitRetry(i)
    \/ \E i \in Tasks : AcceptPoll(i)
    \/ \E i \in Tasks : NodeOutputPoll(i)
    \/ \E i \in Tasks : MockWaitPoll(i)
    \/ \E i \in Tasks : StreamStep(i)
    \/ \E i \in Tasks : MockAccepted(i)
    \/ \E i \in Tasks : MockResult(i)
    \/ Tick

SpecFair == Spec /\ WF_vars(Run)

----------------------------------------------------------------------------
(* The callers of the registry operations, observed: history records every
   call of cancel_request and get_pending_requests and every change a caller
   makes to the mapping it was given.  These runs end when the callers stop
   acting. *)

ObservedCancel ==
    /\ CallersActive
    /\ HistoryCount("cancel") < MaxCancels
    /\ \E tx_hash \in KnownTxHashes \cup {UnknownTxHash} :
         LET c == cancel_request(tx_hash, heap, pending_requests)
         IN  /\ heap' = c.heap
             /\ pending_requests' = c.reg
             /\ history' = Append(history,
                                  Event("cancel", tx_hash, c.ret, {}))
    /\ UNCHANGED <<account, substrate, now, task, mock_task, snapshot,
                   assist, game>>

(* A caller calls get_pending_requests() and keeps what it returns. *)
GetPendingRequests ==
    /\ CallersActive
    /\ HistoryCount("get") < MaxGets
    /\ snapshot' = get_pending_requests(pending_requests)
    /\ history' = Append(history,
                         Event("get", "", TRUE, DOMAIN pending_requests))
    /\ UNCHANGED <<account, substrate, now, heap, pending_requests, task,
                   mock_task, assist, game>>

CallerMayAct ==
    /\ CallersActive
    /\ HistoryCount("get") > 0
    /\ HistoryCount("caller") < MaxCallerOps

(* The caller: returned[k]["status"] = status *)
CallerSetStatus ==
    /\ CallerMayAct
    /\ \E k \in DOMAIN snapshot, status \in {"completed", "failed"} :
         /\ heap' = [heap EXCEPT
                        ![snapshot[k]] = DictSet(@, "status", status)]
         /\ history' = Append(history,
                              Event("caller", k, TRUE, DOMAIN snapshot))
    /\ UNCHANGED <<account, substrate, now, pending_requests, task,
                   mock_task, snapshot, assist, game>>

(* The caller: del returned[k] *)
CallerDelKey ==
    /\ CallerMayAct
    /\ \E k \in DOMAIN snapshot :
         /\ snapshot' = DictDel(snapshot, k)
         /\ history' = Append(history,
                              Event("caller", k, TRUE, DOMAIN snapshot \ {k}))
    /\ UNCHANGED <<account, substrate, now, heap, pending_requests, task,
                   mock_task, assist, game>>

(* The caller: returned["0x456"] = returned[j], a key of its own *)
CallerAddKey ==
    /\ CallerMayAct
    /\ UnknownTxHash \notin DOMAIN snapshot
    /\ \E j \in DOMAIN snapshot :
         /\ snapshot' = DictSet(snapshot, UnknownTxHash, snapshot[j])
         /\ history' = Append(history,
                Event("caller", UnknownTxHash, TRUE,
                      DOMAIN snapshot \cup {UnknownTxHash}))
    /\ UNCHANGED <<account, substrate, now, heap, pending_requests, task,
                   mock_task, assist, game>>

TickWhileCallersActive ==
    /\ Tick
    /\ now' - StartTime <= CallWindow

NextRegistry ==
    \/ \E i \in Tasks, q \in Queries, kind \in {"query", "query_stream"} :
         QueryCall(i, q, kind)
    \/ \E i \in Tasks : SubmitRetry(i)
    \/ \E i \in Tasks : AcceptPoll(i)
    \/ \E i \in Tasks : NodeOutputPoll(i)
    \/ \E i \in Tasks : MockWaitPoll(i)
    \/ \E i \in Tasks : StreamStep(i)
    \/ \E i \in Tasks : MockAccepted(i)
    \/ \E i \in Tasks : MockResult(i)
    \/ ObservedCancel
    \/ GetPendingRequests
    \/ TickWhileCallersActive

SpecRegistry == Init /\ [][NextRegistry]_vars

(* The same, with callers that change the mapping they were given. *)
NextCaller ==
    \/ NextRegistry
    \/ CallerSetStatus
    \/ CallerDelKey
    \/ CallerAddKey

SpecCaller == Init /\ [][NextCaller]_vars

----------------------------------------------------------------------------
(* The live path with the ledger observed: the calls are sent and mined, and
   each task keeps what the ledger answered to its wait loops. *)

(* The blocks between the one of the RequestSent entry and the one that
   the result wait reads as the head, when they hold the result event of
   the request. *)
EarlierBlocks ==
    <<Block(<<NodeEvent("NodeOutputReceived", CHOOSE x \in RequestIds : x # 0,
                        Some(PyBytes("The oracle answers: forty-two.")))>>)>>

(* The ledger has one result event for a request: when an earlier block
   holds it, no later block does. *)
ObservedEnvs(i) ==
    LET envs == {env \in ReceiptEnvs(i) : env.receipt = "success"}
    IN  envs \cup {[env EXCEPT !.before = EarlierBlocks] :
                     env \in {e \in envs :
                        \A r \in RequestIds :
                          first_node_output(e.node.blocks, r) = None}}

ObservedQueryCall(i, q, kind) ==
    /\ FacadeCall(i, q, kind, ObservedEnvs(i), TRUE)
    /\ UNCHANGED assist

InitLedger == Init /\ account

NextLedger ==
    \/ \E i \in Tasks, q \in Queries, kind \in {"query", "query_stream"} :
         ObservedQueryCall(i, q, kind)
    \/ \E i \in Tasks : AcceptPoll(i)
    \/ \E i \in Tasks : NodeOutputPoll(i)
    \/ \E i \in Tasks : StreamStep(i)
    \/ Tick

SpecLedger == InitLedger /\ [][NextLedger]_vars

----------------------------------------------------------------------------
(* _listen_for_agent_result, the result wait on the contract's log, called
   on its own in live mode. *)

(* A decoded AgentResult log entry: event.event, event.args.requestId,
   event.args.nftId, event.args.output. *)
AgentResult(request_id, nft, output) ==
    [event |-> "AgentResult", requestId |-> request_id, nftId |-> nft,
     output |-> output]

ForeignNftIds == {nft_id + 1}

AgentRequestId == CHOOSE x \in RequestIds : x # 0

OwnAgentResult ==
    AgentResult(AgentRequestId, nft_id,
                PyBytes("The oracle answers: forty-two."))

(* The entries the AgentResult filter may return. *)
AgentResultBatches ==
    LET foreign ==
          {AgentResult(f, nft_id, ForeignOutput) : f \in ForeignRequestIds}
          \cup {AgentResult(AgentRequestId, n, ForeignOutput) :
                  n \in ForeignNftIds}
    IN  {<<>>, <<OwnAgentResult>>,
         <<AgentResult(AgentRequestId, nft_id, PyBadBytes("fffe"))>>}
        \cup {<<e>> : e \in foreign}
        \cup {<<e, OwnAgentResult>> : e \in foreign}

(* What the ledger answers to one pass: eth.block_number raises
   ("rpc_error") or gives no new block ("no_block"), or there are new blocks
   and the filter raises ("scan_error") or returns its entries. *)
AgentAnswers ==
    {[kind |-> k, events |-> <<>>] :
        k \in {"rpc_error", "no_block", "scan_error"}}
    \cup {[kind |-> "entries", events |-> b] : b \in AgentResultBatches}

(* Line 367: request_id is None or (event_request_id == request_id and
   event.event == event_type), with event_type = 'NodeOutputReceived'. *)
agent_event_test(event, request_id) ==
    \/ request_id = None
    \/ /\ event.requestId = request_id[1]
       /\ event.event = "NodeOutputReceived"

(* Lines 359-372: the first entry that passes the test. *)
RECURSIVE first_agent_result(_, _)
first_agent_result(events, request_id) ==
    IF events = <<>> THEN None
    ELSE IF agent_event_test(Head(events), request_id)
    THEN Some(Head(events))
    ELSE first_agent_result(Tail(events), request_id)

(* The ledger of the call: what it answered to the pass, and the first
   AgentResult entry of the call's request and oracle with a text in it. *)
ObserveAgent(t, answer) ==
    LET own == {k \in DOMAIN answer.events :
                  /\ t.request_id # None
                  /\ answer.events[k].requestId = t.request_id[1]
                  /\ answer.events[k].nftId = nft_id
                  /\ answer.events[k].output.valid}
    IN  [t EXCEPT !.last = answer.kind,
                  !.own_event =
                      IF @ = None /\ own # {}
                      THEN Some(answer.events[
                                 CHOOSE k \in own : \A j \in own : k <= j])
                      ELSE @]

(* One pass of the loop of _listen_for_agent_result; an exception leaves
   the call (pc "raised", result its message). *)
agent_result_pass(S0, answer) ==
    LET t0 == S0.t
        asleep == [pc |-> "agent_wait", wake |-> S0.time + polling_interval]
    IN
    IF S0.time - t0.start_time < max_wait_time
    THEN LET t == ObserveAgent(
                    [t0 EXCEPT !.rpc = @ \cup {"eth.block_number"}], answer)
             e == first_agent_result(answer.events, t.request_id)
         IN  IF answer.kind = "rpc_error"
             THEN [S0 EXCEPT !.t = [t EXCEPT !.pc = "raised",
                                             !.failed = "result",
                                             !.result = RpcErrorText]]
             ELSE IF answer.kind = "no_block"
             THEN [S0 EXCEPT !.t = [t EXCEPT !.pc = asleep.pc,
                                             !.wake = asleep.wake]]
             ELSE IF answer.kind = "entries" /\ e # None
                     /\ e[1].output.valid
             THEN [S0 EXCEPT !.t =
                     [t EXCEPT !.pc = "done", !.matched = e,
                               !.ret = e[1].output.utf8,
                               !.result = e[1].output.utf8,
                               !.rpc = @ \cup {"AgentResult.create_filter"}]]
             ELSE [S0 EXCEPT !.t =
                     [t EXCEPT !.pc = asleep.pc, !.wake = asleep.wake,
                               !.rpc = @ \cup {"AgentResult.create_filter"}]]
    ELSE [S0 EXCEPT !.t =
            [t0 EXCEPT !.pc = "raised", !.failed = "result",
                       !.result = "No agent result received within "
                                  \o TimeoutText \o " seconds"]]

(* _listen_for_agent_result(tx_hash, request_id) is called and runs to its
   first sleep. *)
AgentResultCall(i, request_id) ==
    /\ account
    /\ task[i].pc = "idle"
    /\ i <= MaxLiveTasks
    /\ CallersActive
    /\ \E answer \in AgentAnswers :
         Resume(i, agent_result_pass(
                     Bundle([IdleTask EXCEPT !.kind = "agent_result",
                                             !.tx_hash = LiveTxHash(i),
                                             !.request_id = request_id,
                                             !.start_time = now,
                                             !.observed = TRUE,
                                             !.rpc = {"eth.block_number"}]),
                     answer))
    /\ UNCHANGED <<account, substrate, mock_task, history, snapshot,
                   assist, game>>

(* _listen_for_agent_result wakes from its sleep. *)
AgentResultPoll(i) ==
    /\ Sleeping(i, "agent_wait")
    /\ \E answer \in AgentAnswers :
         Resume(i, agent_result_pass(Bundle(task[i]), answer))
    /\ UNCHANGED <<account, substrate, mock_task, history, snapshot,
                   assist, game>>

NextAgentResult ==
    \/ \E i \in Tasks, r \in {None, Some(AgentRequestId)} :
         AgentResultCall(i, r)
    \/ \E i \in Tasks : AgentResultPoll(i)
    \/ Tick

SpecAgentResult == InitLedger /\ [][NextAgentResult]_vars

----------------------------------------------------------------------------
(* The mock path of a provider that is called from the second EpochStart
   on, one whose decimal digits end in eight zeros.  (No mock call yields a
   chunk of a response, so query_stream never sleeps between chunks.) *)

EpochStart == 1800000000

InitEpoch ==
    /\ account = FALSE
    /\ substrate = TRUE
    /\ now = EpochStart
    /\ heap = <<>>
    /\ pending_requests = EmptyDict
    /\ task = [i \in Tasks |-> IdleTask]
    /\ mock_task = [i \in Tasks |-> NoMockTask]
    /\ history = <<>>
    /\ snapshot = EmptyDict
    /\ assist = NoAssist
    /\ game = NoGame

NextMock ==
    \/ \E i \in Tasks, q \in Queries, kind \in {"query", "query_stream"} :
         QueryCall(i, q, kind)
    \/ \E i \in Tasks : MockWaitPoll(i)
    \/ \E i \in Tasks : MockAccepted(i)
    \/ \E i \in Tasks : MockResult(i)
    \/ Cancel
    \/ Tick

SpecMockEpoch == InitEpoch /\ [][NextMock]_vars

----------------------------------------------------------------------------
(* get_connection_status and _get_dynamic_gas_price, called on their own:
   history records each call with what the ledger answered and what the
   call returned. *)

MaxProbes == 2      \* calls of the two operations

RpcUrl == "https://test-rpc.com"

ContractAddress == "0x609a8aeeef8b89be02c5b59a936a520547252824"

WalletAddress ==
    IF account THEN "0x5e9fa11e7"
    ELSE "0x0000000000000000000000000000000000000000"

ChainIds == {4386}

(* What the ledger answers to get_connection_status: the two calls of
   w3.is_connected() (lines 502 and 507) and the read of w3.eth.chain_id
   (None: it raises). *)
NetAnswers ==
    [connected : BOOLEAN, still_connected : BOOLEAN,
     chain_id : {None} \cup {Some(c) : c \in ChainIds}]

(* get_connection_status: the dict it returns, or raised. *)
get_connection_status(net) ==
    IF net.still_connected /\ net.chain_id = None
    THEN [raised |-> TRUE, value |-> EmptyDict]
    ELSE [raised |-> FALSE,
          value |-> [connected |-> net.connected,
                     rpc_url |-> RpcUrl,
                     contract_address |-> ContractAddress,
                     wallet_address |-> WalletAddress,
                     nft_id |-> nft_id,
                     chain_id |-> IF net.still_connected THEN net.chain_id
                                  ELSE None]]

(* A caller calls get_connection_status(). *)
GetConnectionStatus ==
    /\ Len(history) < MaxProbes
    /\ \E net \in NetAnswers :
         LET r == get_connection_status(net)
         IN  history' = Append(history,
                               Event("status", net, r, DOMAIN r.value))
    /\ UNCHANGED <<account, substrate, now, heap, pending_requests, task,
                   mock_task, snapshot, assist, game>>

(* _get_dynamic_gas_price() is called (live mode). *)
GetDynamicGasPrice ==
    /\ account
    /\ Len(history) < MaxProbes
    /\ \E fee \in FeeOutcomes :
         history' = Append(history,
                           Event("gas_price", fee,
                                 get_dynamic_gas_price(fee), {}))
    /\ UNCHANGED <<account, substrate, now, heap, pending_requests, task,
                   mock_task, snapshot, assist, game>>

NextProbe ==
    \/ GetConnectionStatus
    \/ GetDynamicGasPrice

SpecProbe == Init /\ [][NextProbe]_vars

----------------------------------------------------------------------------
(* Submissions of one provider that overlap *)

(* Line 214: eth.get_transaction_count(wallet_address) counts the
   transactions of the account in the blocks of the ledger.  A transaction
   whose send raised is in none, and one whose receipt was read with status
   1 is in one.  One whose receipt wait returned None (the wait raised, or
   the status was 0) is counted or not: both answers are kept. *)
TransactionCounts ==
    LET sent == {j \in Tasks : task[j].tx_hash # ""}
        mined == {j \in sent : \E k \in DOMAIN task[j].stages :
                                  task[j].stages[k] = "accept"}
    IN  Cardinality(mined)..Cardinality(sent)

(* The answers of the ledger to a submission that overlaps another: each
   error of send_raw_transaction; a receipt wait that raises; a receipt with
   status 0; a receipt with status 1 and then an eth.block_number that
   raises, or the entry of the submission and a chain head that cannot be
   read.  Each ends the call without a wait loop. *)
OverlapAnswers(i) ==
    {[DefaultEnv(i) EXCEPT !.send = e] : e \in SendErrors}
    \cup {[DefaultEnv(i) EXCEPT !.receipt = "timeout"],
          [DefaultEnv(i) EXCEPT !.receipt = "reverted"],
          [DefaultEnv(i) EXCEPT
             !.accept = [kind |-> "rpc_error", events |-> <<>>, lag |-> 0]],
          [DefaultEnv(i) EXCEPT
             !.accept = [kind |-> "entries", lag |-> 0,
                         events |-> <<RequestSent(LiveTxHash(i), 7)>>],
             !.node = [kind |-> "start_error", blocks |-> <<>>]]}

OverlapEnvs(i) ==
    {[env EXCEPT !.nonce = n] :
       env \in OverlapAnswers(i), n \in TransactionCounts}

(* A caller calls query(q) while earlier calls of the provider may still
   be running; the coroutine runs to its first suspension. *)
OverlappingCall(i, q) ==
    /\ account
    /\ task[i].pc = "idle"
    /\ \A j \in Tasks : j < i => task[j].pc # "idle"
    /\ q \in QueryTexts(i)
    /\ CallersActive
    /\ \E env \in OverlapEnvs(i) :
         Resume(i, submit_transaction(
                     Bundle([IdleTask EXCEPT !.query = q]), env))
    /\ UNCHANGED <<account, substrate, mock_task, history, snapshot,
                   assist, game>>

(* _submit_transaction wakes from the sleep between two send attempts. *)
OverlappingRetry(i) == SendRetry(i, OverlapAnswers(i))

NextOverlap ==
    \/ \E i \in Tasks, q \in Queries : OverlappingCall(i, q)
    \/ \E i \in Tasks : OverlappingRetry(i)
    \/ Tick

SpecOverlap == InitLedger /\ [][NextOverlap]_vars

----------------------------------------------------------------------------
(* The claims *)

RECURSIVE ConcatAll(_)
ConcatAll(seq) == IF seq = <<>> THEN "" ELSE seq[1] \o ConcatAll(Tail(seq))

Terminal == {"completed", "failed", "cancelled"}

(* cancel_request has removed an entry submitted under tx_hash. *)
WasCancelled(tx_hash) ==
    \E r \in DOMAIN heap :
        heap[r].tx_hash = tx_hash /\ heap[r].status = "cancelled"

(* The step adds a call of op to history. *)
Called(op) ==
    /\ Len(history') = Len(history) + 1
    /\ history'[Len(history')].op = op

NewEvent == history'[Len(history')]

(* An entry was submitted under id after event e1 and before event e2. *)
SubmittedBetween(id, e1, e2) ==
    \E r \in (e1.n + 1)..e2.n : heap'[r].tx_hash = id

(* C1: in mock mode every call query(q) that is not cancelled returns a
   string that contains q and is not an error string. *)
C1_MockQueryReturnsAnswer ==
    \A i \in Tasks :
        (/\ ~account
         /\ task[i].kind = "query"
         /\ task[i].pc = "done"
         /\ ~WasCancelled(task[i].tx_hash))
        => /\ Contains(task[i].ret, task[i].query)
           /\ ~StartsWith(task[i].ret, "Error: ")

(* C2: when the mock "result" notification fires for a submission whose
   entry is present and pending, the entry becomes completed and its response
   is the templated string around the entry's query text. *)
C2_MockResultCompletesEntry ==
    [][\A i \in Tasks :
         LET h == mock_task[i].tx_hash
         IN  (/\ mock_task[i].pc = "sleep_result"
              /\ mock_task'[i].pc # "sleep_result"
              /\ h \in DOMAIN pending_requests
              /\ heap[pending_requests[h]].status = "pending")
             => LET e == heap'[pending_requests[h]]
                IN  /\ e.status = "completed"
                    /\ "response" \in DOMAIN e
                    /\ e.response = MockResponse(heap[pending_requests[h]].query)
      ]_vars

(* C3: query_stream yields a non-empty sequence of chunks whose concatenation
   is the string query returns for the same input and ledger behaviour. *)
C3_StreamIsQueryInChunks ==
    \A i \in Tasks :
        (task[i].kind = "query_stream" /\ task[i].pc = "done")
        => /\ Len(task[i].chunks) > 0
           /\ ConcatAll(task[i].chunks) = task[i].result

(* C4: no exception escapes the facade: whatever stage fails, query returns
   a string that starts with "Error: " and query_stream ends after a last
   chunk that starts with "Error: ". *)
C4_FacadeReturnsErrorText ==
    \A i \in Tasks :
        /\ task[i].pc # "raised"
        /\ (task[i].pc = "done" /\ task[i].failed # "")
           => IF task[i].kind = "query"
              THEN StartsWith(task[i].ret, "Error: ")
              ELSE /\ Len(task[i].chunks) > 0
                   /\ StartsWith(task[i].chunks[Len(task[i].chunks)],
                                 "Error: ")

(* C4's case: a live query_stream whose result wait timed out has ended. *)
C4_Witness ==
    \E i \in Tasks :
        /\ account
        /\ task[i].kind = "query_stream"
        /\ task[i].pc = "done"
        /\ task[i].failed = "result"
        /\ task[i].start_time + max_wait_time <= now

(* C5: after cancel_request(id) has returned true, get_pending_requests does
   not contain id and cancel_request(id) returns false, until id is submitted
   again; cancel_request of an id that was never registered returns false
   and leaves the registry as it was. *)
C5_CancelRemoves ==
    [][/\ Called("cancel")
          => /\ NewEvent.ret => NewEvent.id \notin DOMAIN pending_requests'
             /\ \A j \in DOMAIN history :
                  (/\ history[j].op = "cancel"
                   /\ history[j].ret
                   /\ history[j].id = NewEvent.id
                   /\ ~SubmittedBetween(NewEvent.id, history[j], NewEvent))
                  => ~NewEvent.ret
             /\ (\A r \in DOMAIN heap : heap[r].tx_hash # NewEvent.id)
                  => /\ ~NewEvent.ret
                     /\ pending_requests' = pending_requests
                     /\ heap' = heap
       /\ Called("get")
          => \A j \in DOMAIN history :
                  (/\ history[j].op = "cancel"
                   /\ history[j].ret
                   /\ ~SubmittedBetween(history[j].id, history[j], NewEvent))
                  => history[j].id \notin NewEvent.keys
      ]_vars

(* C5's case: a cancel that returned true, then a get_pending_requests, then
   a second cancel of the same id, with no submission of it in between. *)
C5_Witness ==
    \E j, k, l \in DOMAIN history :
        /\ j < k /\ k < l
        /\ history[j].op = "cancel" /\ history[j].ret
        /\ history[k].op = "get"
        /\ history[l].op = "cancel" /\ history[l].id = history[j].id
        /\ history[l].n = history[j].n

(* C6: cancel_request returns true only for an entry that is present and
   whose status is not terminal. *)
C6_CancelOnlyPending ==
    [][(Called("cancel") /\ NewEvent.ret)
         => /\ NewEvent.id \in DOMAIN pending_requests
            /\ heap[pending_requests[NewEvent.id]].status \notin Terminal
      ]_vars

(* C7: no change a caller makes to the mapping get_pending_requests returned
   changes what the registry holds. *)
C7_SnapshotIsIsolated ==
    [][Called("caller") => RegistryView' = RegistryView]_vars

(* C8: two calls in flight at the same time with distinct texts have
   distinct submission identifiers. *)
C8_DistinctIdentifiers ==
    \A i, j \in Tasks :
        (/\ i # j
         /\ task[i].tx_hash # "" /\ task[j].tx_hash # ""
         /\ task[i].pc # "done" /\ task[j].pc # "done"
         /\ task[i].query # task[j].query)
        => task[i].tx_hash # task[j].tx_hash

(* C9: when query or query_stream has finished for a submission, the
   registry holds no entry for its identifier. *)
C9_FinishedIsRemoved ==
    \A i \in Tasks :
        (task[i].pc = "done" /\ task[i].tx_hash # "")
        => task[i].tx_hash \notin DOMAIN pending_requests

(* C10: the status of an entry only moves from pending to a terminal status:
   no step changes a status that is completed, failed or cancelled. *)
C10_StatusIsMonotonic ==
    [][\A r \in DOMAIN heap :
         heap[r].status \in Terminal => heap'[r].status = heap[r].status
      ]_vars

(* The send errors of the fee-too-low class. *)
FeeTooLow ==
    {"replacement transaction underpriced",
     "gas price less than block base fee"}

(* C11: when sends 1 and 2 fail as underpriced and send 3 succeeds, the fee
   of send 3 is at least 2.25 times the fee of send 1, and there is no
   fourth send. *)
C11_ThirdFeeEscalated ==
    \A i \in Tasks :
        LET s == task[i].sends
        IN  (/\ Len(s) >= 3
             /\ s[1].outcome \in FeeTooLow
             /\ s[2].outcome \in FeeTooLow
             /\ s[3].outcome = "ok")
            => /\ WeiGeq(WeiMul(s[3].fee, 4), WeiMul(s[1].fee, 9))
               /\ Len(s) = 3

(* C12: within one submission a send that failed with an error outside the
   fee-too-low class is the last send and the submission has failed; there
   are at most 3 sends, and a third fee-too-low failure fails the
   submission. *)
C12_RetryOnlyFeeTooLow ==
    \A i \in Tasks :
        LET s == task[i].sends
            n == Len(s)
        IN  /\ n <= 3
            /\ \A k \in 1..(n - 1) : s[k].outcome \in FeeTooLow
            /\ (n > 0 /\ s[n].outcome # "ok"
                 /\ (s[n].outcome \notin FeeTooLow \/ n = 3))
               => /\ task[i].pc = "done"
                  /\ task[i].failed = "submit"
                  /\ task[i].tx_hash = ""
                  /\ StartsWith(task[i].result, "Error: ")
            /\ (n > 0 /\ s[n].outcome \in FeeTooLow /\ n < 3)
               => task[i].pc = "submit_retry"

(* C12's case: three sends that all failed as fee too low. *)
C12_Witness ==
    \E i \in Tasks :
        /\ Len(task[i].sends) = 3
        /\ \A k \in 1..3 : task[i].sends[k].outcome \in FeeTooLow
        /\ task[i].pc = "done"

(* C13: when submit returns an identifier the registry holds, under exactly
   that identifier, an entry that is pending and carries the submitted text;
   a run of submit that returns no identifier leaves the registry as it
   was. *)
C13_SubmitRegistersPending ==
    [][\A i \in Tasks :
         /\ (task[i].tx_hash = "" /\ task'[i].tx_hash # "")
            => LET h == task'[i].tx_hash
               IN  /\ h \in DOMAIN pending_requests'
                   /\ RegistryView'[h].status = "pending"
                   /\ RegistryView'[h].query = task'[i].query
                   /\ RegistryView'[h].tx_hash = h
                   /\ \A k \in DOMAIN pending_requests' \ {h} :
                        /\ k \in DOMAIN pending_requests
                        /\ RegistryView'[k] = RegistryView[k]
         /\ (task[i].tx_hash = "" /\ task'[i].tx_hash = ""
             /\ task'[i] # task[i])
            => /\ pending_requests' = pending_requests
               /\ heap' = heap
      ]_vars

(* C13's case: a live submission was registered on its second send. *)
C13_Witness ==
    \E i \in Tasks :
        /\ Len(task[i].sends) = 2
        /\ task[i].tx_hash \in DOMAIN pending_requests
        /\ RegistryView[task[i].tx_hash].status = "pending"

(* C14: without a signing key a query makes no call to the ledger in its
   submit, receipt wait, acceptance wait or result wait. *)
C14_MockMakesNoLedgerCall ==
    ~account => \A i \in Tasks : task[i].rpc = {}

(* C14's case: a mock-mode call has gone through all four stages. *)
C14_Witness ==
    \E i \in Tasks :
        /\ ~account
        /\ task[i].pc = "done"
        /\ task[i].request_id # None
        /\ task[i].tx_hash \notin DOMAIN pending_requests

(* C15: in mock mode the "accepted" notification of a submission is emitted
   at least 1 second after the submission, its "result" notification at
   least 3 seconds after the accepted one, and never without it. *)
C15_AcceptedBeforeResult ==
    \A i \in Tasks :
        LET m == mock_task[i]
        IN  /\ m.accepted_at # 0 => m.accepted_at >= m.created + 1
            /\ m.result_at # 0 => /\ m.accepted_at # 0
                                  /\ m.result_at >= m.accepted_at + 3

(* C15's case: a scheduler has emitted both notifications. *)
C15_Witness ==
    \E i \in Tasks :
        mock_task[i].accepted_at # 0 /\ mock_task[i].result_at # 0

(* C16: in live mode the acceptance wait never sleeps past 30 seconds after
   it started, and the poll that finds the 30 seconds over ends the call:
   no request id, and the text the call ends with starts with "Error: ". *)
C16_AcceptanceDeadline ==
    [][\A i \in Tasks :
         task[i].pc = "accept_wait"
         => /\ task[i].wake <= task[i].start_time + 30
            /\ task[i].wake <= now + 1
            /\ (now >= task[i].start_time + 30 /\ task'[i] # task[i])
               => /\ task'[i].pc = "done"
                  /\ task'[i].failed = "accept"
                  /\ task'[i].request_id = None
                  /\ StartsWith(task'[i].result, "Error: ")
                  /\ task'[i].kind = "query"
                     => task'[i].ret = task'[i].result
      ]_vars

(* C16's case: an acceptance wait has ended 30 seconds after it started. *)
C16_Witness ==
    \E i \in Tasks :
        /\ account
        /\ task[i].pc = "done"
        /\ task[i].failed = "accept"
        /\ task[i].kind = "query"
        /\ now = task[i].start_time + 30

(* C17: a result wait, live or mock, never sleeps past the first poll after
   300 seconds; the poll that finds the 300 seconds over ends the call with
   a text that starts with "Error: "; and every call returns. *)
C17_ResultWaitTimesOut ==
    /\ [][\A i \in Tasks :
            task[i].pc \in {"node_wait", "mock_wait"}
            => /\ task[i].wake < task[i].start_time + 300 + polling_interval
               /\ task[i].wake <= now + polling_interval
               /\ (now >= task[i].start_time + 300 /\ task'[i] # task[i])
                  => /\ task'[i].pc = "done"
                     /\ task'[i].failed = "result"
                     /\ StartsWith(task'[i].result, "Error: ")
                     /\ task'[i].kind = "query"
                        => task'[i].ret = task'[i].result
         ]_vars
    /\ \A i \in Tasks : (task[i].pc # "idle") ~> (task[i].pc = "done")

(* C17's case: a mock result wait has ended 300 seconds after it started. *)
C17_Witness ==
    \E i \in Tasks :
        /\ ~account
        /\ task[i].pc = "done"
        /\ task[i].failed = "result"
        /\ now >= task[i].start_time + 300

(* C18: once cancel_request has removed the entry of a request whose result
   wait is in flight, the next poll of that wait ends it silently: the call
   is over and reports no failure. *)
C18_CancelledWaitStops ==
    [][\A i \in Tasks :
         (/\ task[i].pc \in {"mock_wait", "node_wait"}
          /\ WasCancelled(task[i].tx_hash)
          /\ task[i].tx_hash \notin DOMAIN pending_requests
          /\ task'[i] # task[i])
         => /\ task'[i].pc = "done"
            /\ task'[i].failed = ""
      ]_vars

StageOrder == <<"submit", "receipt", "accept", "result">>

(* C19: a call starts its stages in the order submit, receipt wait,
   acceptance wait, result wait; the acceptance wait only after a receipt of
   a submitted transaction, the result wait only after the acceptance wait
   has returned a request id; and the acceptance wait is over when the
   result wait runs. *)
C19_StagesInOrder ==
    \A i \in Tasks :
        LET t == task[i]
            n == Len(t.stages)
        IN  /\ n <= 4
            /\ t.stages = SubSeq(StageOrder, 1, n)
            /\ t.pc # "idle" => n >= 1
            /\ n >= 2 => t.tx_hash # ""
            /\ n >= 3 => t.failed \notin {"submit", "receipt"}
            /\ n = 4 => t.request_id # None /\ t.failed # "accept"
            /\ t.pc = "submit_retry" => n = 1
            /\ t.pc = "accept_wait" => n = 3
            /\ t.pc \in {"node_wait", "mock_wait", "streaming"} => n = 4
            /\ t.failed = "receipt" => n = 2
            /\ t.failed = "accept" => n = 3

(* C19's case: a live call that slept in its send loop has gone through all
   four stages. *)
C19_Witness ==
    \E i \in Tasks :
        /\ account
        /\ task[i].pc = "done"
        /\ Len(task[i].stages) = 4
        /\ Len(task[i].sends) = 2
        /\ task[i].start_time > StartTime + 1

(* The tasks that run in the step (a scheduler that is only created in it
   does not run). *)
Stepping ==
    {<<"call", i>> : i \in {j \in Tasks : task'[j] # task[j]}}
    \cup {<<"mock", i>> : i \in {j \in Tasks :
                /\ mock_task[j].pc # "none"
                /\ mock_task'[j] # mock_task[j]}}

(* C20: a read of a registry entry and the change that depends on it are
   one step of one task.  A step is taken by one task; a result wait deletes
   its entry only in the step in which it finds it completed or failed (or
   finds its time over) and returns the response the entry has in that
   step, so its first pass, which finds the entry pending, leaves it; the
   scheduler marks completed the entry that is registered when it wakes;
   cancel_request marks the entry it deletes. *)
C20_CheckThenActIsOneStep ==
    [][/\ Cardinality(Stepping) <= 1
       /\ \A i \in Tasks :
            LET h == task[i].tx_hash
            IN  (/\ task[i].pc = "mock_wait"
                 /\ task'[i] # task[i]
                 /\ h \in DOMAIN pending_requests
                 /\ h \notin DOMAIN pending_requests')
                => /\ \/ RegistryView[h].status \in {"completed", "failed"}
                      \/ now >= task[i].start_time + max_wait_time
                   /\ RegistryView[h].status = "completed"
                      => task'[i].result
                           = DictGet(RegistryView[h], "response", "")
                   /\ heap' = heap
       /\ \A i \in Tasks :
            (/\ ~account
             /\ task[i].pc = "idle"
             /\ Len(task'[i].stages) = 4)
            => /\ task'[i].pc = "mock_wait"
               /\ task'[i].tx_hash \in DOMAIN pending_requests'
       /\ \A i \in Tasks :
            LET h == mock_task[i].tx_hash
            IN  (/\ mock_task[i].pc = "sleep_result"
                 /\ mock_task'[i] # mock_task[i]
                 /\ h \in DOMAIN pending_requests)
                => /\ pending_requests' = pending_requests
                   /\ RegistryView'[h].status = "completed"
                   /\ RegistryView'[h].query = RegistryView[h].query
       /\ \A h \in DOMAIN pending_requests :
            (Stepping = {} /\ h \notin DOMAIN pending_requests')
            => heap'[pending_requests[h]].status = "cancelled"
      ]_vars

(* C20's case: a mock result wait has found its entry completed and has
   deleted it. *)
C20_Witness ==
    \E i \in Tasks : \E r \in DOMAIN heap :
        /\ ~account
        /\ task[i].pc = "done"
        /\ task[i].failed = ""
        /\ heap[r].tx_hash = task[i].tx_hash
        /\ heap[r].status = "completed"
        /\ task[i].tx_hash \notin DOMAIN pending_requests


(* C21: _listen_for_agent_result called with a request id returns the
   output of an AgentResult entry of that request and of the provider's
   oracle (nft_id), and it returns when the filter gives it such an entry
   before the deadline. *)
C21_AgentResultOfRequest ==
    \A i \in Tasks :
        LET t == task[i]
        IN  (t.kind = "agent_result" /\ t.request_id # None)
            => /\ t.pc = "done"
                  => /\ t.matched # None
                     /\ t.matched[1].requestId = t.request_id[1]
                     /\ t.matched[1].nftId = nft_id
                     /\ t.ret = t.matched[1].output.utf8
               /\ t.own_event # None
                  => /\ t.pc = "done"
                     /\ t.matched = t.own_event

(* A live call whose result wait has returned a text. *)
ReturnedResult(t) ==
    /\ account
    /\ t.kind # "agent_result"
    /\ t.pc \in {"done", "streaming"}
    /\ t.failed = ""

(* C22: the text _listen_for_node_output returns is decoded from an event
   named NodeOutputReceived whose request_id is the one it was called with
   and whose output_data is present; the output of an event of another
   request is never returned. *)
C22_NodeOutputOfRequest ==
    \A i \in Tasks :
        LET t == task[i]
        IN  ReturnedResult(t)
            => /\ t.matched # None
               /\ t.matched[1].event_id = "NodeOutputReceived"
               /\ t.matched[1].attributes # None
               /\ t.matched[1].attributes[1].request_id = t.request_id[1]
               /\ t.matched[1].attributes[1].output_data # None
               /\ t.result = DecodeNodeOutput(
                                 t.matched[1].attributes[1].output_data[1])
               /\ t.result # DecodeNodeOutput(ForeignOutput)

(* A call has returned the text of its request's event. *)
C22_Witness ==
    \E i \in Tasks :
        /\ ReturnedResult(task[i])
        /\ task[i].observed
        /\ task[i].result = "The oracle answers: forty-two."
        /\ task[i].matched # None

(* C25: the live _wait_for_request_accepted returns a request id only
   from a RequestSent entry whose transaction hash is the submission's, and
   it is the id that entry carries; the id of another transaction's entry is
   never returned. *)
C25_AcceptedByOwnTransaction ==
    \A i \in Tasks :
        LET t == task[i]
        IN  (account /\ t.kind # "agent_result")
            => /\ t.accepted_by # None
                  => /\ t.accepted_by[1].event = "RequestSent"
                     /\ t.accepted_by[1].transactionHash = t.tx_hash
               /\ t.request_id # None
                  => /\ t.accepted_by # None
                     /\ t.request_id[1] = t.accepted_by[1].requestId
                     /\ t.request_id[1] \notin ForeignRequestIds

(* The acceptance wait has returned the id of the submission's entry. *)
C25_Witness ==
    \E i \in Tasks :
        /\ account
        /\ task[i].observed
        /\ task[i].request_id # None
        /\ task[i].accepted_by = Some(RequestSent(task[i].tx_hash,
                                                  task[i].request_id[1]))

(* C23: an error raised while a scan reads its entries, a block or an event
   does not end the wait: an acceptance wait whose last scan failed, or a
   result wait whose last pass could not read the head, a block or an
   event, has ended only if its deadline has passed. *)
C23_ScanErrorKeepsPolling ==
    \A i \in Tasks :
        LET t == task[i]
        IN  (t.observed /\ t.kind # "agent_result")
            => /\ (t.last = "scan_error" /\ t.pc # "accept_wait")
                  => /\ t.failed = "accept"
                     /\ t.wake - t.start_time >= accept_timeout
               /\ (t.last \in {"head_error", "block_error"}
                     /\ t.pc # "node_wait" /\ t.failed # "")
                  => /\ t.failed = "result"
                     /\ t.wake - t.start_time >= max_wait_time

(* A wait is still polling after a scan that failed. *)
C23_Witness ==
    \E i \in Tasks :
        /\ task[i].observed
        /\ \/ task[i].pc = "accept_wait" /\ task[i].last = "scan_error"
           \/ task[i].pc = "node_wait" /\ task[i].last = "block_error"
        /\ task[i].wake > task[i].start_time + polling_interval

(* C24: when the ledger holds a RequestSent entry of the submission's own
   transaction, in the submission's block or a later one, the acceptance
   wait returns the id of that entry. *)
C24_OwnEntryIsFound ==
    \A i \in Tasks :
        LET t == task[i]
        IN  (t.observed /\ t.kind # "agent_result" /\ t.own_event # None
               /\ t.pc # "accept_wait" /\ t.last # "rpc_error")
            => t.accepted_by = t.own_event

(* C26: _get_dynamic_gas_price always returns a price: the base fee plus
   the fixed premium when the latest block can be read and has a base fee
   that is not zero; otherwise the suggested price plus 20% when it can be
   read; otherwise the fixed fallback price. *)
C26_GasPriceFallsBack ==
    \A k \in DOMAIN history :
        LET fee == history[k].id
            price == history[k].ret
        IN  history[k].op = "gas_price"
            => /\ price.hi >= 0 /\ price.lo >= 0
               /\ (fee.block = "eip1559" /\ fee.base_fee # WeiOf(0))
                  => price = WeiAdd(fee.base_fee,
                                    to_wei_gwei(priority_fee_gwei))
               /\ (~(fee.block = "eip1559" /\ fee.base_fee # WeiOf(0))
                     /\ fee.gas_price # None)
                  => price = WeiMulDiv(fee.gas_price[1], 120, 100)
               /\ (~(fee.block = "eip1559" /\ fee.base_fee # WeiOf(0))
                     /\ fee.gas_price = None)
                  => price = to_wei_gwei(fallback_price_gwei)

(* The estimator was called when the latest block could not be read and
   the suggested price could, and when neither could. *)
C26_Witness ==
    /\ \E k \in DOMAIN history :
         /\ history[k].op = "gas_price"
         /\ history[k].id.block = "error"
         /\ history[k].id.gas_price = Some(WeiOf(10))
         /\ history[k].ret = WeiOf(12)
    /\ \E k \in DOMAIN history :
         /\ history[k].op = "gas_price"
         /\ history[k].id.block = "error"
         /\ history[k].id.gas_price = None

(* C29: get_connection_status never raises; it returns a mapping with the
   keys connected, rpc_url, contract_address, wallet_address, nft_id and
   chain_id, with connected false and chain_id None when the ledger cannot
   be reached. *)
C29_StatusNeverRaises ==
    \A k \in DOMAIN history :
        LET net == history[k].id
            r == history[k].ret
        IN  history[k].op = "status"
            => /\ ~r.raised
               /\ history[k].keys = {"connected", "rpc_url",
                                     "contract_address", "wallet_address",
                                     "nft_id", "chain_id"}
               /\ (~net.connected /\ ~net.still_connected)
                  => /\ r.value.connected = FALSE
                     /\ r.value.chain_id = None

(* C27: in mock mode a call fails only by the timeout of the result wait:
   it never ends with "Error: Transaction failed", "Error: Request not
   accepted" or a "Request failed" error, and no entry gets status
   failed. *)
C27_MockFailsOnlyByTimeout ==
    ~account
    => /\ \A i \in Tasks :
            task[i].failed # ""
            => StartsWith(task[i].result, "Error: Request timed out after ")
       /\ \A r \in DOMAIN heap : heap[r].status # "failed"

(* A call that has returned the result of its request. *)
Succeeded(t) ==
    /\ t.kind # "agent_result"
    /\ t.pc \in {"done", "streaming"}
    /\ t.failed = ""
    /\ "result" \in {t.stages[k] : k \in DOMAIN t.stages}

(* C28: in mock mode and in live mode alike, when a call returns the result
   of its request the request's entry has been set to completed and has
   been removed from the registry. *)
C28_BackendsAgreeOnEntry ==
    \A i \in Tasks :
        Succeeded(task[i])
        => /\ task[i].tx_hash \notin DOMAIN pending_requests
           /\ \E r \in DOMAIN heap :
                /\ heap[r].tx_hash = task[i].tx_hash
                /\ heap[r].status = "completed"

(* C30: when the receipt wait yields no receipt (a status that is not
   success, or none in time), the call ends with "Error: Transaction
   failed" without starting the acceptance wait or the result wait; and no
   call has more than one send_raw_transaction that the ledger accepted. *)
C30_FailedReceiptEndsCall ==
    \A i \in Tasks :
        LET t == task[i]
            accepted == {k \in DOMAIN t.sends : t.sends[k].outcome = "ok"}
        IN  /\ Cardinality(accepted) <= 1
            /\ accepted # {} => accepted = {Len(t.sends)}
            /\ t.failed = "receipt"
               => /\ t.pc = "done"
                  /\ t.result = "Error: Transaction failed"
                  /\ t.stages = <<"submit", "receipt">>
                  /\ t.request_id = None
                  /\ t.rpc \cap {"eth.block_number",
                                 "RequestSent.create_filter",
                                 "substrate.get_chain_head",
                                 "substrate.get_events"} = {}

(* A live call has ended on a receipt that was not a success, after a
   retried send. *)
C30_Witness ==
    \E i \in Tasks :
        /\ account
        /\ task[i].failed = "receipt"
        /\ Len(task[i].sends) > 1

(* C35: when a live submission is made while another one of the provider
   sleeps between two sends, no transaction the new one has signed carries
   the nonce of a transaction the sleeping one has signed. *)
C35_OverlappingNoncesDiffer ==
    [][\A i \in Tasks, j \in Tasks :
         (/\ i # j
          /\ task[i].pc = "submit_retry"
          /\ task[j].pc = "idle"
          /\ task'[j].pc # "idle")
         => \A a \in DOMAIN task'[i].sends, b \in DOMAIN task'[j].sends :
              task'[i].sends[a].nonce # task'[j].sends[b].nonce
      ]_vars

(* The request id that the acceptance wait of the call returned (None: it
   returned None, or it has not returned). *)
ReturnedRequestId(t) ==
    IF account
    THEN IF t.accepted_by = None THEN None
         ELSE Some(t.accepted_by[1].requestId)
    ELSE IF "accept" \in {t.stages[k] : k \in DOMAIN t.stages}
         THEN Some(MockRequestId(t.tx_hash))
         ELSE None

(* C38: a call ends with "Error: Request not accepted" only when the
   acceptance wait returned no request id, and for every request id the
   acceptance wait returns, 0 included, the call starts the result wait. *)
C38_EveryRequestIdProceeds ==
    \A i \in Tasks :
        LET id == ReturnedRequestId(task[i])
        IN  /\ task[i].result = "Error: Request not accepted" => id = None
            /\ id # None
               => "result" \in {task[i].stages[k] :
                                  k \in DOMAIN task[i].stages}

(* C36: when the ledger holds the result event of a call's request in a
   block after the one of its RequestSent entry, be it a block that the
   chain already had when the result wait read its start block, and the
   Substrate interface is connected and gives the head of the chain, the
   call does not end without returning the text of that event. *)
C36_EarlierResultIsReturned ==
    \A i \in Tasks :
        LET t == task[i]
            held == IF t.earlier_output # None THEN t.earlier_output
                    ELSE t.own_output
        IN  (/\ t.pc = "done"
             /\ t.earlier_output # None
             /\ substrate
             /\ t.result # "Error: " \o RpcErrorText)
            => /\ t.failed = ""
               /\ t.result = DecodeNodeOutput(
                                 held[1].attributes[1].output_data[1])

(* C37: when a pass of the result wait was given a block that holds the
   result event of the call's request, the call does not end without
   returning the text of that event, whatever error the pass met on a block
   or on an event of that range. *)
C37_ErrorSkipsNoMatchingEvent ==
    \A i \in Tasks :
        LET t == task[i]
        IN  (t.pc = "done" /\ t.own_output # None)
            => /\ t.failed = ""
               /\ t.result = DecodeNodeOutput(
                                 t.own_output[1].attributes[1].output_data[1])

(* The entry of the i-th mock submission has been removed from the
   registry by cancel_request or by the timeout of _wait_for_mock_result.
   In mock mode every call creates one entry, so the i-th call's is the
   i-th of heap. *)
EntryRemoved(i) ==
    /\ ~account
    /\ i \in DOMAIN heap
    /\ \/ heap[i].status = "cancelled"
       \/ /\ task[i].pc = "done"
          /\ StartsWith(task[i].result, "Error: Request timed out after ")
    /\ ~(/\ task[i].tx_hash \in DOMAIN pending_requests
         /\ pending_requests[task[i].tx_hash] = i)

(* C39: once the entry of a mock submission has been removed from the
   registry, a step of that submission's _schedule_mock_events task adds no
   entry to the registry and changes no entry. *)
C39_LateNotificationChangesNothing ==
    [][\A i \in Tasks :
         (EntryRemoved(i) /\ mock_task'[i] # mock_task[i])
         => /\ pending_requests' = pending_requests
            /\ heap' = heap
      ]_vars

(* In mock mode the i-th call's entry is the i-th of heap. *)
MockEntryOrder ==
    ~account => \A i \in Tasks :
        task[i].pc # "idle"
        => i \in DOMAIN heap /\ heap[i].tx_hash = task[i].tx_hash


(***************************************************************************)
(* RivalAgent: one assist call, its response handler and the consumer of  *)
(* the response queue                                                      *)
(***************************************************************************)

MaxResults == 1      \* results in a search answer
MaxImages == 1       \* images in a search answer

(* What the search service answers for the prompt: an exception, or a
   mapping with "results" and "images". *)
SearchAnswers ==
    {[raises |-> TRUE, results |-> 0, images |-> 0]}
      \cup {[raises |-> FALSE, results |-> r, images |-> m] :
              r \in 0..MaxResults, m \in 0..MaxImages}

(* The events a response handler puts on the response queue. *)
TextBlock(name, content) ==
    [type |-> "text_block", name |-> name, content |-> content]
Json(name) == [type |-> "json", name |-> name, content |-> ""]
TextChunk(c) == [type |-> "chunk", name |-> "FINAL_RESPONSE", content |-> c]
StreamComplete ==
    [type |-> "stream_complete", name |-> "FINAL_RESPONSE", content |-> ""]
DoneEvent == [type |-> "done", name |-> "", content |-> ""]

(* RivalAgent.__init__: it builds the model provider and assigns no
   _search_provider. *)
RivalAgent(search) ==
    [pc |-> "idle", search_provider |-> FALSE, search |-> search,
     events |-> <<>>, consumed |-> 0]

(* An agent whose _search_provider was assigned by the code that built it. *)
AgentWithSearch(search) ==
    [RivalAgent(search) EXCEPT !.search_provider = TRUE]

(* The text __process_search_results sends to the provider, which never
   looks into it. *)
process_query == CHOOSE q \in QueryTexts(1) : TRUE

(* An except clause that emits the ERROR block and leaves the response
   open. *)
assist_except_NoComplete(events, error) ==
    events \o <<TextBlock("ERROR", error)>>

(* The except clause of assist: an ERROR block, then the completion. *)
assist_except(events, error) ==
    events \o <<TextBlock("ERROR", error), DoneEvent>>

(* assist of an agent that has no _search_provider: the SEARCH block, then
   the AttributeError of line 57 is caught. *)
AssistNoSearch ==
    /\ assist.pc = "idle"
    /\ ~assist.search_provider
    /\ assist' = [assist EXCEPT
                    !.pc = "ended",
                    !.events = assist_except(<<TextBlock("SEARCH", "")>>,
                                             "AttributeError")]
    /\ UNCHANGED <<account, substrate, now, heap, pending_requests, task,
                   mock_task, history, snapshot, game>>

(* assist when the search raises. *)
AssistSearchRaised ==
    /\ assist.pc = "idle"
    /\ assist.search_provider
    /\ assist.search.raises
    /\ assist' = [assist EXCEPT
                    !.pc = "ended",
                    !.events = assist_except(<<TextBlock("SEARCH", "")>>,
                                             "search failed")]
    /\ UNCHANGED <<account, substrate, now, heap, pending_requests, task,
                   mock_task, history, snapshot, game>>

(* assist when the search returns: SEARCH, SOURCES, IMAGES, PROCESSING, and
   query_stream runs to its first suspension.  The ledger takes the
   transaction at the first send attempt. *)
AssistSearched ==
    /\ assist.pc = "idle"
    /\ assist.search_provider
    /\ ~assist.search.raises
    /\ assist' =
         [assist EXCEPT
            !.pc = "streaming",
            !.events =
               <<TextBlock("SEARCH", "")>>
                 \o (IF assist.search.results > 0
                     THEN <<Json("SOURCES")>> ELSE <<>>)
                 \o (IF assist.search.images > 0
                     THEN <<Json("IMAGES")>> ELSE <<>>)
                 \o <<TextBlock("PROCESSING", "")>>]
    /\ FacadeCall(1, process_query, "query_stream",
                  IF account THEN ReceiptEnvs(1) ELSE {DefaultEnv(1)}, FALSE)

(* The chunks query_stream has yielded, as emit_chunk forwards them. *)
RECURSIVE ChunkEvents(_)
ChunkEvents(chunks) ==
    IF chunks = <<>> THEN <<>>
    ELSE <<TextChunk(Head(chunks))>> \o ChunkEvents(Tail(chunks))

(* What the response queue has received: each chunk as query_stream yields
   it and, once query_stream has ended, the two completions. *)
ResponseEvents ==
    IF assist.pc = "none" THEN <<>>
    ELSE IF assist.pc # "streaming" THEN assist.events
    ELSE assist.events \o ChunkEvents(task[1].chunks)
           \o (IF task[1].pc = "done"
               THEN <<StreamComplete, DoneEvent>> ELSE <<>>)

AssistEnded ==
    \/ assist.pc = "ended"
    \/ assist.pc = "streaming" /\ task[1].pc = "done"

(* __stream_agent_output takes one event from the response queue, and
   leaves its loop at the DoneEvent. *)
StreamAgentOutput ==
    /\ assist.pc # "none"
    /\ assist.consumed < Len(ResponseEvents)
    /\ assist.consumed > 0
         => ResponseEvents[assist.consumed] # DoneEvent
    /\ assist' = [assist EXCEPT !.consumed = @ + 1]
    /\ UNCHANGED <<account, substrate, now, heap, pending_requests, task,
                   mock_task, history, snapshot, game>>

(* The event loop lets time pass when no coroutine is ready to run: the
   consumer has taken every event the response queue holds. *)
AssistTick ==
    /\ \/ assist.consumed = Len(ResponseEvents)
       \/ /\ assist.consumed > 0
          /\ ResponseEvents[assist.consumed] = DoneEvent
    /\ Tick

InitAssist ==
    /\ InitProvider
    /\ assist \in {RivalAgent(a) : a \in SearchAnswers}
                    \cup {AgentWithSearch(a) : a \in SearchAnswers}
    /\ game = NoGame

NextAssist ==
    \/ AssistNoSearch
    \/ AssistSearchRaised
    \/ AssistSearched
    \/ StreamAgentOutput
    \/ \E i \in Tasks : AcceptPoll(i)
    \/ \E i \in Tasks : NodeOutputPoll(i)
    \/ \E i \in Tasks : MockWaitPoll(i)
    \/ \E i \in Tasks : StreamStep(i)
    \/ \E i \in Tasks : MockAccepted(i)
    \/ \E i \in Tasks : MockResult(i)
    \/ AssistTick

SpecAssist == InitAssist /\ [][NextAssist]_vars

(* The event loop runs every coroutine that can run. *)
AssistRun ==
    \/ \E i \in Tasks : AcceptPoll(i)
    \/ \E i \in Tasks : NodeOutputPoll(i)
    \/ \E i \in Tasks : MockWaitPoll(i)
    \/ \E i \in Tasks : StreamStep(i)
    \/ \E i \in Tasks : MockAccepted(i)
    \/ \E i \in Tasks : MockResult(i)
    \/ AssistTick

SpecAssistFair ==
    SpecAssist /\ WF_vars(AssistRun) /\ WF_vars(StreamAgentOutput)


(* The calls of response_handler.complete() so far: each puts one DoneEvent
   on the response queue. *)
CompleteCalls ==
    Cardinality({k \in 1..Len(ResponseEvents) : ResponseEvents[k] = DoneEvent})

(* The consumer of the response queue has received the DoneEvent. *)
ConsumerDone ==
    /\ assist.consumed > 0
    /\ assist.consumed = Len(ResponseEvents)
    /\ ResponseEvents[assist.consumed] = DoneEvent

ErrorEmitted ==
    \E k \in 1..Len(ResponseEvents) :
      /\ ResponseEvents[k].type = "text_block"
      /\ ResponseEvents[k].name = "ERROR"

(* Where an assist call stands: complete() has been called once, as the
   last event and after an ERROR block when a step raised, if the call has
   ended, and not at all before. *)
CompletedOnce ==
    /\ AssistEnded
         => /\ CompleteCalls = 1
            /\ ResponseEvents[Len(ResponseEvents)] = DoneEvent
    /\ (assist.pc # "none" /\ ~AssistEnded) => CompleteCalls = 0
    /\ assist.pc = "ended"
         => LET n == Len(ResponseEvents)
            IN  /\ n >= 2
                /\ ResponseEvents[n - 1].type = "text_block"
                /\ ResponseEvents[n - 1].name = "ERROR"

AssistCalled == assist.pc \in {"streaming", "ended"}

(* C31: every call of assist ends with complete() called exactly once, as
   the last event, after an ERROR block when a step raised; until then it
   has not been called; and the consumer of the response queue receives
   the DoneEvent of every call. *)
C31_AssistCompletesOnce ==
    /\ []CompletedOnce
    /\ AssistCalled ~> (AssistEnded /\ ConsumerDone)

(* An assist whose search and processing succeeded has streamed two chunks
   and the consumer has received its DoneEvent. *)
C31_Witness ==
    /\ assist.pc = "streaming"
    /\ task[1].pc = "done"
    /\ Len(task[1].chunks) >= 2
    /\ ~ErrorEmitted
    /\ ConsumerDone


(* The events of an assist whose search found results and whose processing
   ran to its end. *)
SuccessEvents ==
    <<TextBlock("SEARCH", ""), Json("SOURCES")>>
      \o (IF assist.search.images > 0 THEN <<Json("IMAGES")>> ELSE <<>>)
      \o <<TextBlock("PROCESSING", "")>>
      \o ChunkEvents(task[1].chunks)
      \o <<StreamComplete, DoneEvent>>

(* C32: an agent built by the constructor, whose search would return at
   least one result, has emitted at the end of assist SEARCH, SOURCES,
   PROCESSING, every chunk of query_stream in order, the completion of the
   stream and the completion of the response, and no ERROR block. *)
C32_ConstructedAgentStreams ==
    (/\ assist.pc # "none"
     /\ ~assist.search_provider
     /\ ~assist.search.raises
     /\ assist.search.results > 0
     /\ AssistEnded)
    => /\ ~ErrorEmitted
       /\ ResponseEvents = SuccessEvents


(***************************************************************************)
(* SharedGameState: one state file, the instances built on it and the     *)
(* calls of their threads                                                  *)
(***************************************************************************)

MaxGameCallers == 2  \* threads or processes that call the game state
MaxGameCalls == 2    \* calls each of them makes

GameCallers == 1..MaxGameCallers

(* The response and the blocked_by argument caller c passes to block_game. *)
GameResponse(c) == IF c = 1 THEN "uomi one" ELSE "uomi two"
GameBlockedBy(c) == IF c = 1 THEN "chat" ELSE "twitter"

(* _ensure_state_file_exists: the state a new file holds. *)
default_state ==
    [game_blocked |-> FALSE, winner |-> None, blocked_by |-> None,
     version |-> 1]

(* A caller between two calls.  entry is the file as the call found it. *)
IdleGameCall ==
    [pc |-> "idle", op |-> "", state |-> default_state, made |-> 0,
     entry |-> [valid |-> TRUE, state |-> default_state]]

(* One state file, valid as long as it holds a whole JSON text.  With
   shared, the callers are threads that share instance 1; otherwise each is
   a process with an instance of its own.  lock is the holder of each
   instance's threading.Lock, 0 when free; log lists the calls that have
   returned. *)
SharedGameState(shared) ==
    [pc |-> "built", shared |-> shared,
     file |-> [valid |-> TRUE, state |-> default_state],
     lock |-> [n \in GameCallers |-> 0],
     call |-> [c \in GameCallers |-> IdleGameCall],
     log |-> <<>>]

InstanceOf(c) == IF game.shared THEN 1 ELSE c

(* "with self.lock" can be entered. *)
LockFree_NoLock(n) == TRUE

LockFree(n) == game.lock[n] = 0

(* _write_state, before it opens the file: the stamp and the version. *)
write_state(state) == [state EXCEPT !.version = @ + 1]

(* The state block_game writes. *)
blocked_state(state, c) ==
    [state EXCEPT !.game_blocked = TRUE,
                  !.blocked_by = Some(GameBlockedBy(c)),
                  !.winner = Some(GameResponse(c))]

(* A call has returned: the lock is released and the return is logged. *)
GameReturn(g, c, ret) ==
    [g EXCEPT !.lock[InstanceOf(c)] = 0,
              !.call[c].pc = "idle",
              !.log = Append(@, [caller |-> c, op |-> g.call[c].op,
                                 ret |-> ret])]

ProviderUnchanged ==
    UNCHANGED <<account, substrate, now, heap, pending_requests, task,
                mock_task, history, snapshot, assist>>

(* Caller c calls block_game or reset_game and takes the lock of its
   instance.  reset_game goes straight to _write_state. *)
GameCall(c, op) ==
    /\ game.pc = "built"
    /\ game.call[c].pc = "idle"
    /\ game.call[c].made < MaxGameCalls
    /\ LockFree(InstanceOf(c))
    /\ game' = [game EXCEPT
                  !.lock[InstanceOf(c)] = c,
                  !.call[c] =
                     [pc |-> IF op = "reset_game" THEN "open" ELSE "read",
                      op |-> op,
                      state |-> IF op = "reset_game"
                                THEN write_state(default_state)
                                ELSE default_state,
                      made |-> @.made + 1,
                      entry |-> game.file]]
    /\ ProviderUnchanged

(* block_game reads the file, which holds a whole text, and returns False
   when the game is blocked; otherwise it goes on to _write_state. *)
BlockGameRead(c) ==
    /\ game.pc = "built"
    /\ game.call[c].pc = "read"
    /\ game.file.valid
    /\ game' =
         IF game.file.state.game_blocked
         THEN GameReturn(game, c, FALSE)
         ELSE [game EXCEPT
                 !.call[c].pc = "open",
                 !.call[c].state =
                    write_state(blocked_state(game.file.state, c))]
    /\ ProviderUnchanged

(* _write_state opens the file for writing, which empties it. *)
WriteOpen(c) ==
    /\ game.pc = "built"
    /\ game.call[c].pc = "open"
    /\ game' = [game EXCEPT !.file.valid = FALSE, !.call[c].pc = "dump"]
    /\ ProviderUnchanged

(* _write_state takes the file lock, dumps the state and closes the file;
   the call returns True. *)
WriteDump(c) ==
    /\ game.pc = "built"
    /\ game.call[c].pc = "dump"
    /\ game' = GameReturn(
                 [game EXCEPT !.file = [valid |-> TRUE,
                                        state |-> game.call[c].state]],
                 c, TRUE)
    /\ ProviderUnchanged

InitGame ==
    /\ InitProvider
    /\ ~account
    /\ assist = NoAssist
    /\ game \in {SharedGameState(shared) : shared \in BOOLEAN}

NextGame ==
    \/ \E c \in GameCallers, op \in {"block_game", "reset_game"} :
         GameCall(c, op)
    \/ \E c \in GameCallers : BlockGameRead(c)
    \/ \E c \in GameCallers : WriteOpen(c)
    \/ \E c \in GameCallers : WriteDump(c)

SpecGame == InitGame /\ [][NextGame]_vars


(* The k-th returned call is the first block_game since the last reset. *)
FirstSinceReset(log, k) ==
    \A j \in 1..(k - 1) :
      log[j].op = "block_game"
        => \E r \in (j + 1)..(k - 1) : log[r].op = "reset_game"

(* Caller c returns from block_game in this step. *)
BlockGameReturns(c) ==
    /\ game.call[c].op = "block_game"
    /\ game.call[c].pc # "idle"
    /\ game'.call[c].pc = "idle"

(* C33: for threads that share one instance, a block_game call returns
   True exactly when it is the first block_game since the last reset, and a
   block_game call that returns False leaves the file, with its winner,
   blocked_by and version, as the call found it. *)
C33_OneBlockerPerGame ==
    [][(game.pc = "built" /\ game.shared)
         => \A c \in GameCallers :
              BlockGameReturns(c)
                => LET log == game'.log
                       ret == log[Len(log)].ret
                   IN  /\ ret = FirstSinceReset(log, Len(log))
                       /\ ~ret => /\ game'.file = game.file
                                  /\ game'.file = game.call[c].entry
      ]_vars

(* Two threads of one instance have called block_game: the first returned
   True and the second, which had the game blocked before it, False. *)
C33_Witness ==
    /\ game.pc = "built"
    /\ game.shared
    /\ Len(game.log) = 2
    /\ game.log[1] = [caller |-> 2, op |-> "block_game", ret |-> TRUE]
    /\ game.log[2] = [caller |-> 1, op |-> "block_game", ret |-> FALSE]
    /\ game.file.state.winner = Some(GameResponse(2))

(* The block_game calls that have returned True. *)
GameWinners ==
    {k \in DOMAIN game.log :
       game.log[k].op = "block_game" /\ game.log[k].ret}

NoReset ==
    /\ \A k \in DOMAIN game.log : game.log[k].op # "reset_game"
    /\ \A c \in GameCallers :
         game.call[c].pc # "idle" => game.call[c].op # "reset_game"

(* C34: when processes with instances of their own call block_game on one
   file that no reset touches, at most one call returns True, and the
   winner in the file is the one of the call that returned True. *)
C34_OneWinnerAcrossProcesses ==
    (/\ game.pc = "built"
     /\ ~game.shared
     /\ NoReset)
    => /\ Cardinality(GameWinners) <= 1
       /\ \A k \in GameWinners :
            game.file.valid
              => game.file.state.winner
                   = Some(GameResponse(game.log[k].caller))

====
